---- MODULE Spec2Model ----
(***************************************************************************)
(* Broadcaster fee directory of railgun-rs' JavaScript SDK.                *)
(*                                                                         *)
(* Spec        : class Broadcasters of sdk-js/src/_broadcaster.ts: the     *)
(*               subscription callback, the asynchronous handler           *)
(*               handleFeesMessage and decodeBroadcasterFeeMessage.        *)
(* SpecBest    : relayer selection, best(token, now).                      *)
(* SpecResolve : fee resolution, resolve(candidate, buildTx, estimateGas). *)
(*                                                                         *)
(* Text is a sequence of character codes (ASCII), bytes are naturals below *)
(* 256.  A JavaScript Map is the set of its <<key, value>> entries.        *)
(***************************************************************************)
EXTENDS Integers, Sequences, FiniteSets, TLC

VARIABLES
    broadcasters,     \* Broadcasters.broadcasters : Map<RailgunAddress, BroadcasterFeeMessageData>
    tokenFees,        \* Broadcasters.tokenFees : Map<Address, Map<RailgunAddress, TokenFee>>
    microtasks,       \* suspended handleFeesMessage calls, in the order their await was reached
    unhandled,        \* a handleFeesMessage promise was rejected and nothing handles it
    alive,            \* the process is running
    delivered,        \* number of messages handed to the subscription callback
    lastArrived,      \* history: per broadcaster, the last arrived announcement that reaches the upsert
    lastListed,       \* history: per broadcaster and token, the rate last announced by arrival
    upserts,          \* history: per broadcaster, the number of announcements upserted
    overtook,         \* history: an announcement arrived while one of the same broadcaster
                      \*          with a later feeExpiration was still suspended
    partialUpsert,    \* history: an upsert threw after it had written the record
    rejected,         \* history: the decoding of a delivered message threw
    storedExpired,    \* history: an announcement was upserted after its feeExpiration had passed
    ignored,          \* the messages logged as "Received message on unknown topic"
    selToken,         \* best(): the token asked for
    selNow,           \* best(): the caller's clock
    candidate,        \* best(): the result, the set of at most one <<railgunAddress, TokenFee>>
    pc,               \* resolve(): "idle", "loop", "done", "failed"
    estimator,        \* resolve(): the caller's estimateGas o buildTx, fee amount -> gas
    feePerUnitGas,    \* resolve(): the candidate's rate
    maxIterations,    \* resolve(): iteration budget
    toleranceUnits,   \* resolve(): accepted difference of two successive fees
    feeAmount,        \* resolve(): current fee
    iterations,       \* resolve(): rebuild/re-estimate iterations performed
    result,           \* resolve(): what the caller receives
    clock,            \* Date.now(), in milliseconds
    store,            \* the messages the store node holds, in chronological order
    lastMessageByTopic, \* retrieveHistorical: Map<string, IDecodedMessage>
    calls,            \* retrieveHistorical: the calls made, each with its position
    subscriptions,    \* subscribe: the subscriptions of node.filter, <<topics, callback id>>
    handles,          \* subscribe: what each completed subscribe call resolved to
    received,         \* history: the messages the node delivered to a subscription callback
    forwarded,        \* the messages handed to onMessage, in order
    stopped,          \* node.stop() has completed
    forwardedAtStop,  \* history: the number of forwarded messages when the node stopped
    pushes,           \* history: the publish attempts made on node.lightPush
    sends,            \* send: the calls made, each with what its caller saw
    clients,          \* Broadcasters.create: the clients made, each with its decoder
    wasmInitialized,  \* wasm.ts: the module flag
    wasmExports,      \* wasm.ts: the module's exports, or null
    inits,            \* initWasm: the calls made, each with its position
    gets,             \* getWasm: the calls made, each with what its caller saw
    artifactCache,    \* the module's Map from cache key to loaded artifacts
    proves            \* the calls of a prove function, each with its position

registryVars == <<broadcasters, tokenFees, microtasks, unhandled, alive, delivered,
                  lastArrived, lastListed, upserts, overtook, partialUpsert, rejected,
                  storedExpired, ignored>>
bestVars == <<selToken, selNow, candidate>>
resolveVars == <<pc, estimator, feePerUnitGas, maxIterations, toleranceUnits,
                 feeAmount, iterations, result>>
storeVars == <<clock, store, lastMessageByTopic, calls>>
transportVars == <<subscriptions, handles, received, forwarded, stopped,
                   forwardedAtStop, pushes, sends>>
sdkVars == <<clients, wasmInitialized, wasmExports, inits, gets>>
proverVars == <<artifactCache, proves>>
vars == <<registryVars, bestVars, resolveVars, storeVars, transportVars, sdkVars, proverVars>>

----------------------------------------------------------------------------
(* Bounds *)

MaxDeliveries == 2

----------------------------------------------------------------------------
(* JavaScript Map *)

MapHas(m, k) == \E e \in m : e[1] = k

MapGet(m, k) == (CHOOSE e \in m : e[1] = k)[2]

MapKeys(m) == {e[1] : e \in m}

\* Map.prototype.set that keeps the first value of an existing key.
MapSetKeepFirst(m, k, v) == IF MapHas(m, k) THEN m ELSE m \cup {<<k, v>>}

\* Map.prototype.set: the entry of key k is replaced.
MapSet(m, k, v) == {e \in m : e[1] # k} \cup {<<k, v>>}

----------------------------------------------------------------------------
(* Text *)

Chr == [zero |-> 48, nine |-> 57, A |-> 65, F |-> 70, X |-> 88, a |-> 97, f |-> 102,
        x |-> 120, dot |-> 46, minus |-> 45, plus |-> 43, lbrace |-> 123,
        rbrace |-> 125, replacement |-> 65533]

\* String.prototype.split(sep)[0]: the text before the first sep, all of it without one.
SplitFirst(s, sep) ==
    IF \E i \in 1..Len(s) : s[i] = sep
    THEN LET i == CHOOSE j \in 1..Len(s) : s[j] = sep /\ \A h \in 1..(j - 1) : s[h] # sep
         IN  SubSeq(s, 1, i - 1)
    ELSE s

\* viem charCodeToBase16: the value of a hexadecimal digit, -1 for any other character.
HexDigitValue(c) ==
    IF c >= Chr.zero /\ c <= Chr.nine THEN c - Chr.zero
    ELSE IF c >= Chr.A /\ c <= Chr.F THEN c - (Chr.A - 10)
    ELSE IF c >= Chr.a /\ c <= Chr.f THEN c - (Chr.a - 10)
    ELSE -1

HexDigitChar(n) == IF n < 10 THEN Chr.zero + n ELSE Chr.a + (n - 10)

RECURSIVE ToNumber(_, _, _)
\* The number written by the digits ds in the given base, most significant first.
ToNumber(ds, base, acc) ==
    IF ds = <<>> THEN acc
    ELSE ToNumber(Tail(ds), base, acc * base + HexDigitValue(Head(ds)))

AllDigits(ds, base) ==
    /\ Len(ds) >= 1
    /\ \A i \in 1..Len(ds) : HexDigitValue(ds[i]) >= 0 /\ HexDigitValue(ds[i]) < base

\* BigInt(string): StringToBigInt.  "0x" digits are hexadecimal, a decimal literal may
\* carry a sign, the empty string is 0n, anything else throws SyntaxError.
BigInt(s) ==
    IF s = <<>> THEN [ok |-> TRUE, value |-> 0]
    ELSE IF Len(s) >= 2 /\ s[1] = Chr.zero /\ s[2] \in {Chr.x, Chr.X}
    THEN LET ds == SubSeq(s, 3, Len(s))
         IN  IF AllDigits(ds, 16) THEN [ok |-> TRUE, value |-> ToNumber(ds, 16, 0)]
             ELSE [ok |-> FALSE, value |-> 0]
    ELSE LET signed == s[1] \in {Chr.minus, Chr.plus}
             ds == IF signed THEN Tail(s) ELSE s
         IN  IF AllDigits(ds, 10)
             THEN [ok |-> TRUE,
                   value |-> IF s[1] = Chr.minus THEN 0 - ToNumber(ds, 10, 0)
                             ELSE ToNumber(ds, 10, 0)]
             ELSE [ok |-> FALSE, value |-> 0]

\* viem hexToBytes: the first two characters are taken to be "0x" and cut off
\* unseen, an odd number of digits gets a leading 0, a character that is no
\* hexadecimal digit throws.
hexToBytes(hex) ==
    LET cut == SubSeq(hex, 3, Len(hex))
        s == IF Len(cut) % 2 = 1 THEN <<Chr.zero>> \o cut ELSE cut
    IN  IF \A i \in 1..Len(s) : HexDigitValue(s[i]) >= 0
        THEN [ok |-> TRUE,
              bytes |-> [i \in 1..(Len(s) \div 2) |->
                            16 * HexDigitValue(s[2 * i - 1]) + HexDigitValue(s[2 * i])]]
        ELSE [ok |-> FALSE, bytes |-> <<>>]

\* TextDecoder.decode / bytesToUtf8 on the bytes the model uses: ASCII decodes to
\* itself, a byte that starts no valid sequence to U+FFFD; it never throws.
Utf8Decode(bytes) ==
    [i \in 1..Len(bytes) |-> IF bytes[i] < 128 THEN bytes[i] ELSE Chr.replacement]

\* fromHex(data, {to: 'string'})
fromHex(hex) ==
    LET b == hexToBytes(hex)
    IN  [ok |-> b.ok, string |-> Utf8Decode(b.bytes)]

\* The wire side: bytesToHex of a broadcaster, with or without the "0x" prefix.
RECURSIVE HexDigits(_)
HexDigits(bytes) ==
    IF bytes = <<>> THEN <<>>
    ELSE <<HexDigitChar(Head(bytes) \div 16), HexDigitChar(Head(bytes) % 16)>>
             \o HexDigits(Tail(bytes))

toHex(bytes, prefixed) ==
    IF prefixed THEN <<Chr.zero, Chr.x>> \o HexDigits(bytes) ELSE HexDigits(bytes)

----------------------------------------------------------------------------
(* JSON.  The documents that occur on the wire are listed in a code book; the *)
(* text of document number i is "{", the character i, "}".  JSON.parse throws *)
(* SyntaxError on any other text.                                           *)

RECURSIVE SetToSeq(_)
SetToSeq(S) ==
    IF S = {} THEN <<>>
    ELSE LET e == CHOOSE x \in S : TRUE IN <<e>> \o SetToSeq(S \ {e})

JSONstringify(doc, book) ==
    <<Chr.lbrace, CHOOSE i \in 1..Len(book) : book[i] = doc, Chr.rbrace>>

JSONparse(text, book) ==
    IF /\ Len(text) = 3
       /\ text[1] = Chr.lbrace
       /\ text[3] = Chr.rbrace
       /\ text[2] \in 1..Len(book)
    THEN [ok |-> TRUE, index |-> text[2]]
    ELSE [ok |-> FALSE, index |-> 0]

----------------------------------------------------------------------------
(* Fee announcements (BroadcasterFeeMessageData) *)

RailgunAddresses == {"A", "B"}
USDC == "0x1c7d"
WETH == "0xfff9"
Tokens == {USDC, WETH}

Text8 == <<56>>                          \* "8"
Text823 == <<56, 46, 50, 46, 51>>        \* "8.2.3"
Text790 == <<55, 46, 57, 46, 48>>        \* "7.9.0"
Text801 == <<56, 48, 46, 49>>            \* "80.1"
Text08 == <<46, 56>>                     \* ".8"
Rate0xa == <<48, 120, 97>>               \* "0xa"   10
Rate0x14 == <<48, 120, 49, 52>>          \* "0x14"  20
Rate0x5 == <<48, 120, 53>>               \* "0x5"   5
Rate0xg == <<48, 120, 103>>              \* "0xg"   no number
RateMinus5 == <<45, 53>>                 \* "-5"

BROADCASTER_VERSION == Text8

FeeExpirations == {1000, 5000}           \* Unix milliseconds

FeesIDOf(exp) == IF exp = 1000 THEN "batch1" ELSE "batch2"
\* In hundredths.
ReliabilityOf(addr) == IF addr = "A" THEN 50 ELSE IF addr = "B" THEN 90 ELSE 70

\* An announcement; `missing` lists the fields the JSON object does not have.
Announcement(addr, fees, exp, version, missing) ==
    [fees |-> fees, feeExpiration |-> exp,
     feesID |-> IF "feesID" \in missing THEN "undefined" ELSE FeesIDOf(exp),
     railgunAddress |-> addr, identifier |-> "", availableWallets |-> 2,
     version |-> version, relayAdapt |-> "0x7e3d",
     requiredPOIListKeys |-> <<"efc6">>, reliability |-> ReliabilityOf(addr),
     missing |-> missing \cup {"identifier"}]

\* `fees` in the order of the object's keys.
GoodFees == {<< <<USDC, Rate0xa>> >>, << <<USDC, Rate0x14>> >>,
             << <<USDC, Rate0x5>>, <<WETH, Rate0xa>> >>}

CoreAnnouncements ==
    {Announcement(addr, fees, exp, Text823, {}) :
        addr \in RailgunAddresses, fees \in GoodFees, exp \in FeeExpirations}

VersionAnnouncements ==
    {Announcement("A", << <<USDC, Rate0xa>> >>, 5000, v, {}) :
        v \in {Text8, Text790, Text801, Text08}}

OddAnnouncements ==
    {Announcement("A", << <<USDC, Rate0xa>> >>, 5000, Text823, {"fees"}),
     Announcement("A", << <<USDC, Rate0xa>> >>, 5000, Text823, {"version"}),
     Announcement("B", << <<WETH, Rate0xa>> >>, 5000, Text823, {"feesID"}),
     Announcement("A", << <<USDC, Rate0x14>>, <<WETH, Rate0xg>> >>, 5000, Text823, {}),
     Announcement("B", << <<USDC, RateMinus5>> >>, 5000, Text823, {})}

Announcements == CoreAnnouncements \cup VersionAnnouncements \cup OddAnnouncements

JsonDocs == SetToSeq(Announcements)

----------------------------------------------------------------------------
(* Wire envelopes (BroadcasterFeeMessage) and payloads *)

Signatures == {"sig1", "sig2"}

Envelope(data, signature, missing) ==
    [data |-> data, signature |-> signature, missing |-> missing]

\* {data: hex(UTF-8(JSON(announcement))), signature}
EnvelopeOf(a, signature, prefixed) ==
    Envelope(toHex(JSONstringify(a, JsonDocs), prefixed), signature, {})

SampleAnnouncement == Announcement("A", << <<USDC, Rate0x14>> >>, 5000, Text823, {})

BadEnvelopes ==
    {Envelope(<<Chr.zero, Chr.x, 122, 122>>, "sig1", {}),                  \* "0xzz"
     Envelope(toHex(<<Chr.lbrace, 1>>, TRUE), "sig1", {}),                  \* cut JSON
     Envelope(toHex(<<Chr.lbrace, 200, Chr.rbrace>>, TRUE), "sig1", {}),    \* no UTF-8
     Envelope(<<>>, "sig1", {"data"}),
     Envelope(toHex(JSONstringify(SampleAnnouncement, JsonDocs), TRUE), "", {"signature"})}

Envelopes ==
    {EnvelopeOf(a, "sig1", TRUE) : a \in Announcements}
        \cup {EnvelopeOf(SampleAnnouncement, "sig2", TRUE),
              EnvelopeOf(SampleAnnouncement, "sig1", FALSE)}
        \cup BadEnvelopes

EnvelopeDocs == SetToSeq(Envelopes)

PayloadOf(e) == JSONstringify(e, EnvelopeDocs)

\* What the network can deliver: every envelope, and one payload that is no JSON.
Payloads == {PayloadOf(e) : e \in Envelopes} \cup {<<Chr.lbrace, 1>>}

----------------------------------------------------------------------------
(* decodeBroadcasterFeeMessage *)

NoError == [name |-> "", got |-> <<>>, expected |-> <<>>]
NoData == [missing |-> {"*"}]

Thrown(name, got, expected) ==
    [ok |-> FALSE, feeMessageData |-> NoData, signature |-> "",
     error |-> [name |-> name, got |-> got, expected |-> expected]]

\* The envelope is decoded only when it carries the one signature held valid.
parseFeeMessageVerified(payload) ==
    LET env == JSONparse(Utf8Decode(payload), EnvelopeDocs)
    IN  IF ~env.ok THEN Thrown("SyntaxError", <<>>, <<>>)
        ELSE LET e == EnvelopeDocs[env.index]
             IN  IF "data" \in e.missing THEN Thrown("TypeError", <<>>, <<>>)
                 ELSE IF "signature" \in e.missing \/ e.signature # "sig1"
                 THEN Thrown("InvalidSignature", <<>>, <<>>)
                 ELSE LET s == fromHex(e.data)
                      IN  IF ~s.ok THEN Thrown("InvalidBytesError", <<>>, <<>>)
                          ELSE LET doc == JSONparse(s.string, JsonDocs)
                               IN  IF ~doc.ok THEN Thrown("SyntaxError", <<>>, <<>>)
                                   ELSE [ok |-> TRUE,
                                         feeMessageData |-> JsonDocs[doc.index],
                                         signature |-> e.signature,
                                         error |-> NoError]

\* Lines 156-158: the envelope, the hex text, the announcement.
parseFeeMessage(payload) ==
    LET env == JSONparse(Utf8Decode(payload), EnvelopeDocs)
    IN  IF ~env.ok THEN Thrown("SyntaxError", <<>>, <<>>)
        ELSE LET e == EnvelopeDocs[env.index]
             IN  IF "data" \in e.missing THEN Thrown("TypeError", <<>>, <<>>)
                 ELSE LET s == fromHex(e.data)
                      IN  IF ~s.ok THEN Thrown("InvalidBytesError", <<>>, <<>>)
                          ELSE LET doc == JSONparse(s.string, JsonDocs)
                               IN  IF ~doc.ok THEN Thrown("SyntaxError", <<>>, <<>>)
                                   ELSE [ok |-> TRUE,
                                         feeMessageData |-> JsonDocs[doc.index],
                                         signature |-> IF "signature" \in e.missing
                                                       THEN "undefined" ELSE e.signature,
                                         error |-> NoError]

\* The version check that compares only the first character.
checkVersionFirstChar(p) ==
    LET d == p.feeMessageData
    IN  IF "version" \in d.missing THEN Thrown("TypeError", <<>>, <<>>)
        ELSE IF SubSeq(d.version, 1, 1) # BROADCASTER_VERSION
        THEN Thrown("Incompatible broadcaster version", d.version, BROADCASTER_VERSION)
        ELSE p

\* Lines 160-165: the major version is the text before the first ".".
checkVersion(p) ==
    LET d == p.feeMessageData
    IN  IF "version" \in d.missing THEN Thrown("TypeError", <<>>, <<>>)
        ELSE IF SplitFirst(d.version, Chr.dot) # BROADCASTER_VERSION
        THEN Thrown("Incompatible broadcaster version", d.version, BROADCASTER_VERSION)
        ELSE p

decodeBroadcasterFeeMessage(payload) ==
    LET p == parseFeeMessage(payload)
    IN  IF p.ok THEN checkVersion(p) ELSE p

----------------------------------------------------------------------------
(* Broadcasters.handleFeesMessage *)

ClientChain == 11155111
ChainIds == {1, ClientChain}

TextRailgunV2 == <<47, 114, 97, 105, 108, 103, 117, 110, 47, 118, 50, 47>>  \* "/railgun/v2/"
TextFeesJson == <<45, 102, 101, 101, 115, 47, 106, 115, 111, 110>>          \* "-fees/json"

RECURSIVE NumberToString(_)
\* `${n}` of a non-negative integer: its decimal digits, no leading zero.
NumberToString(n) ==
    IF n < 10 THEN <<Chr.zero + n>>
    ELSE NumberToString(n \div 10) \o <<Chr.zero + (n % 10)>>

\* The 0 and the chain id are written one after the other.
feeContentTopicJoined(chain_id) ==
    LET cid == <<Chr.zero>> \o NumberToString(chain_id)
    IN  TextRailgunV2 \o cid \o TextFeesJson

\* Lines 168-171.
feeContentTopic(chain_id) ==
    LET cid == <<Chr.zero, Chr.minus>> \o NumberToString(chain_id)
    IN  TextRailgunV2 \o cid \o TextFeesJson

ContentTopics == {feeContentTopic(c) : c \in ChainIds}

TokenFee(rate, d) ==
    [feePerUnitGas |-> rate, expiration |-> d.feeExpiration, feesID |-> d.feesID,
     availableWallets |-> d.availableWallets, relayAdapt |-> d.relayAdapt,
     reliability |-> d.reliability]

RECURSIVE writeTokenFeesOnlyNew(_, _, _)
\* An entry the broadcaster already has for a token is left as it is.
writeTokenFeesOnlyNew(tf, d, fees) ==
    IF fees = <<>> THEN [tokenFees |-> tf, threw |-> FALSE]
    ELSE LET tokenAddress == Head(fees)[1]
             n == BigInt(Head(fees)[2])
             tokenFeeMap == IF MapHas(tf, tokenAddress) THEN MapGet(tf, tokenAddress) ELSE {}
         IN  IF ~n.ok THEN [tokenFees |-> tf, threw |-> TRUE]
             ELSE IF MapHas(tokenFeeMap, d.railgunAddress)
             THEN writeTokenFeesOnlyNew(tf, d, Tail(fees))
             ELSE writeTokenFeesOnlyNew(
                      MapSet(tf, tokenAddress,
                             MapSet(tokenFeeMap, d.railgunAddress, TokenFee(n.value, d))),
                      d, Tail(fees))

RECURSIVE writeTokenFeesFreshMap(_, _, _)
\* The map of the token is made anew for every entry written.
writeTokenFeesFreshMap(tf, d, fees) ==
    IF fees = <<>> THEN [tokenFees |-> tf, threw |-> FALSE]
    ELSE LET tokenAddress == Head(fees)[1]
             n == BigInt(Head(fees)[2])
         IN  IF ~n.ok THEN [tokenFees |-> tf, threw |-> TRUE]
             ELSE writeTokenFeesFreshMap(
                      MapSet(tf, tokenAddress,
                             MapSet({}, d.railgunAddress, TokenFee(n.value, d))),
                      d, Tail(fees))

RECURSIVE writeTokenFees(_, _, _)
\* Lines 134-151: one entry per pair of `fees`, in order; BigInt throws on a
\* rate that is no number and the loop ends there.
writeTokenFees(tf, d, fees) ==
    IF fees = <<>> THEN [tokenFees |-> tf, threw |-> FALSE]
    ELSE LET tokenAddress == Head(fees)[1]
             n == BigInt(Head(fees)[2])
             tokenFeeMap == IF MapHas(tf, tokenAddress) THEN MapGet(tf, tokenAddress) ELSE {}
         IN  IF ~n.ok THEN [tokenFees |-> tf, threw |-> TRUE]
             ELSE writeTokenFees(
                      MapSet(tf, tokenAddress,
                             MapSet(tokenFeeMap, d.railgunAddress, TokenFee(n.value, d))),
                      d, Tail(fees))

\* The record is written after the entries: a throw in the loop leaves the
\* entries written so far without it.
upsertRecordLast(b, tf, d) ==
    IF "fees" \in d.missing
    THEN [broadcasters |-> b, tokenFees |-> tf, threw |-> FALSE]
    ELSE LET w == writeTokenFees(tf, d, d.fees)
         IN  [broadcasters |-> IF w.threw THEN b ELSE MapSet(b, d.railgunAddress, d),
              tokenFees |-> w.tokenFees, threw |-> w.threw]

\* An announcement whose feeExpiration has passed is left out.
upsertUnexpired(b, tf, d) ==
    IF "fees" \in d.missing \/ d.feeExpiration < clock
    THEN [broadcasters |-> b, tokenFees |-> tf, threw |-> FALSE]
    ELSE LET w == writeTokenFees(tf, d, d.fees)
         IN  [broadcasters |-> MapSet(b, d.railgunAddress, d),
              tokenFees |-> w.tokenFees, threw |-> w.threw]

\* Lines 127-151, for the announcement d.
upsert(b, tf, d) ==
    IF "fees" \in d.missing
    THEN [broadcasters |-> b, tokenFees |-> tf, threw |-> FALSE]
    ELSE LET w == writeTokenFees(tf, d, d.fees)
         IN  [broadcasters |-> MapSet(b, d.railgunAddress, d),
              tokenFees |-> w.tokenFees, threw |-> w.threw]

\* A handler that keeps the record with the later feeExpiration.
handleFeesMessageNewestWins(b, tf, task) ==
    IF ~task.settled.ok
    THEN [broadcasters |-> b, tokenFees |-> tf, threw |-> TRUE]
    ELSE LET d == task.settled.feeMessageData
         IN  IF /\ MapHas(b, d.railgunAddress)
                /\ MapGet(b, d.railgunAddress).feeExpiration > d.feeExpiration
             THEN [broadcasters |-> b, tokenFees |-> tf, threw |-> FALSE]
             ELSE upsert(b, tf, d)

\* A handler that writes the registry before the version is checked.
handleFeesMessageWriteFirst(b, tf, task) ==
    LET p == parseFeeMessage(task.msg.payload)
    IN  IF ~p.ok
        THEN [broadcasters |-> b, tokenFees |-> tf, threw |-> TRUE]
        ELSE LET u == upsert(b, tf, p.feeMessageData)
             IN  [broadcasters |-> u.broadcasters, tokenFees |-> u.tokenFees,
                  threw |-> u.threw \/ ~task.settled.ok]

\* Lines 125-152, from the await of line 126 on: `task` is the suspended call,
\* task.settled what decodeBroadcasterFeeMessage returned or threw.
handleFeesMessage(b, tf, task) ==
    IF ~task.settled.ok
    THEN [broadcasters |-> b, tokenFees |-> tf, threw |-> TRUE]
    ELSE upsert(b, tf, task.settled.feeMessageData)

\* The job queue of the await of line 126: first in, first out.
NextJob(q) == [job |-> Head(q), rest |-> Tail(q)]

----------------------------------------------------------------------------
(* Spec: the subscription of Broadcasters.create *)

ReachesUpsert(settled) == settled.ok /\ "fees" \notin settled.feeMessageData.missing

AllRatesParse(d) == \A i \in 1..Len(d.fees) : BigInt(d.fees[i][2]).ok

\* The history of announced rates after announcement d has arrived.
ListRates(listed, d) ==
    [a \in RailgunAddresses, t \in Tokens |->
        IF a = d.railgunAddress /\ \E i \in 1..Len(d.fees) : d.fees[i][1] = t
        THEN {BigInt(d.fees[i][2]).value : i \in {j \in 1..Len(d.fees) : d.fees[j][1] = t}}
        ELSE listed[a, t]]

InitBest ==
    /\ selToken = USDC
    /\ selNow = -1
    /\ candidate = {}

InitResolve ==
    /\ pc = "idle"
    /\ estimator = <<>>
    /\ feePerUnitGas = 0
    /\ maxIterations = 0
    /\ toleranceUnits = 0
    /\ feeAmount = 0
    /\ iterations = 0
    /\ result = [status |-> "none", tx |-> {}, feeAmount |-> {}, iterations |-> 0]

InitRegistry ==
    /\ broadcasters = {}
    /\ tokenFees = {}
    /\ microtasks = <<>>
    /\ unhandled = FALSE
    /\ alive = TRUE
    /\ delivered = 0
    /\ lastArrived = [a \in RailgunAddresses |-> {}]
    /\ lastListed = [a \in RailgunAddresses, t \in Tokens |-> {}]
    /\ upserts = [a \in RailgunAddresses |-> 0]
    /\ overtook = FALSE
    /\ partialUpsert = FALSE
    /\ rejected = FALSE
    /\ storedExpired = FALSE
    /\ ignored = 0

InitStore ==
    /\ clock = 0
    /\ store = <<>>
    /\ lastMessageByTopic = {}
    /\ calls = <<>>

InitTransport ==
    /\ subscriptions = {}
    /\ handles = <<>>
    /\ received = <<>>
    /\ forwarded = <<>>
    /\ stopped = FALSE
    /\ forwardedAtStop = 0
    /\ pushes = <<>>
    /\ sends = <<>>

Null == "null"

InitSdk ==
    /\ clients = <<>>
    /\ wasmInitialized = FALSE
    /\ wasmExports = Null
    /\ inits = <<>>
    /\ gets = <<>>

InitProver ==
    /\ artifactCache = {}
    /\ proves = <<>>

Init ==
    /\ InitRegistry /\ InitBest /\ InitResolve /\ InitStore /\ InitTransport
    /\ InitSdk /\ InitProver

\* The callback hands every message to handleFeesMessage, whatever its topic.
DeliverAnyTopic(contentTopic, payload) ==
    /\ alive
    /\ delivered < MaxDeliveries
    /\ ~(unhandled /\ microtasks = <<>>)
    /\ delivered' = delivered + 1
    /\ ignored' = IF contentTopic = feeContentTopic(ClientChain)
                  THEN ignored
                  ELSE ignored + 1
    /\ IF TRUE
       THEN LET settled == decodeBroadcasterFeeMessage(payload)
                d == settled.feeMessageData
            IN  /\ microtasks' = Append(microtasks,
                        [msg |-> [payload |-> payload, contentTopic |-> contentTopic],
                         settled |-> settled])
                /\ rejected' = (rejected \/ ~settled.ok)
                /\ IF ReachesUpsert(settled)
                   THEN /\ lastArrived' = [lastArrived EXCEPT ![d.railgunAddress] = {d}]
                        /\ lastListed' = IF AllRatesParse(d)
                                         THEN ListRates(lastListed, d)
                                         ELSE lastListed
                        /\ overtook' =
                              (overtook \/ \E i \in 1..Len(microtasks) :
                                  /\ ReachesUpsert(microtasks[i].settled)
                                  /\ microtasks[i].settled.feeMessageData.railgunAddress
                                        = d.railgunAddress
                                  /\ microtasks[i].settled.feeMessageData.feeExpiration
                                        > d.feeExpiration)
                   ELSE UNCHANGED <<lastArrived, lastListed, overtook>>
       ELSE UNCHANGED <<microtasks, lastArrived, lastListed, overtook, rejected>>
    /\ UNCHANGED <<broadcasters, tokenFees, unhandled, alive, upserts, partialUpsert,
                   storedExpired>>
    /\ UNCHANGED <<bestVars, resolveVars, storeVars, transportVars, sdkVars, proverVars>>

\* Lines 104-116: the callback of node.filter.subscribe.  handleFeesMessage runs
\* to its await (the decoding is done) and is left suspended; the callback
\* returns without awaiting it.
Deliver(contentTopic, payload) ==
    /\ alive
    /\ delivered < MaxDeliveries
    /\ ~(unhandled /\ microtasks = <<>>)
    /\ delivered' = delivered + 1
    /\ ignored' = IF contentTopic = feeContentTopic(ClientChain)
                  THEN ignored
                  ELSE ignored + 1
    /\ IF contentTopic = feeContentTopic(ClientChain)
       THEN LET settled == decodeBroadcasterFeeMessage(payload)
                d == settled.feeMessageData
            IN  /\ microtasks' = Append(microtasks,
                        [msg |-> [payload |-> payload, contentTopic |-> contentTopic],
                         settled |-> settled])
                /\ rejected' = (rejected \/ ~settled.ok)
                /\ IF ReachesUpsert(settled)
                   THEN /\ lastArrived' = [lastArrived EXCEPT ![d.railgunAddress] = {d}]
                        /\ lastListed' = IF AllRatesParse(d)
                                         THEN ListRates(lastListed, d)
                                         ELSE lastListed
                        /\ overtook' =
                              (overtook \/ \E i \in 1..Len(microtasks) :
                                  /\ ReachesUpsert(microtasks[i].settled)
                                  /\ microtasks[i].settled.feeMessageData.railgunAddress
                                        = d.railgunAddress
                                  /\ microtasks[i].settled.feeMessageData.feeExpiration
                                        > d.feeExpiration)
                   ELSE UNCHANGED <<lastArrived, lastListed, overtook>>
       ELSE UNCHANGED <<microtasks, lastArrived, lastListed, overtook, rejected>>
    /\ UNCHANGED <<broadcasters, tokenFees, unhandled, alive, upserts, partialUpsert,
                   storedExpired>>
    /\ UNCHANGED <<bestVars, resolveVars, storeVars, transportVars, sdkVars, proverVars>>

\* The suspended handleFeesMessage call at the head of the job queue resumes and
\* runs to its end; a throw rejects its promise, which nothing handles.
Resume ==
    /\ alive
    /\ microtasks # <<>>
    /\ LET next == NextJob(microtasks)
           r == handleFeesMessage(broadcasters, tokenFees, next.job)
           d == next.job.settled.feeMessageData
       IN  /\ microtasks' = next.rest
           /\ broadcasters' = r.broadcasters
           /\ tokenFees' = r.tokenFees
           /\ unhandled' = (unhandled \/ r.threw)
           /\ upserts' = IF ReachesUpsert(next.job.settled)
                         THEN [upserts EXCEPT ![d.railgunAddress] = @ + 1]
                         ELSE upserts
           /\ partialUpsert' = (partialUpsert \/ (ReachesUpsert(next.job.settled) /\ r.threw))
           /\ storedExpired' = (storedExpired \/ (/\ ReachesUpsert(next.job.settled)
                                                  /\ d.feeExpiration < clock))
    /\ UNCHANGED <<alive, delivered, lastArrived, lastListed, overtook, rejected,
                   ignored>>
    /\ UNCHANGED <<bestVars, resolveVars, storeVars, transportVars, sdkVars, proverVars>>

\* The runtime meets the unhandled rejection once the job queue is empty: Node
\* and Bun raise it as an uncaught exception, which ends the process.
Terminate ==
    /\ alive
    /\ unhandled
    /\ microtasks = <<>>
    /\ alive' = FALSE
    /\ UNCHANGED <<broadcasters, tokenFees, microtasks, unhandled, delivered,
                   lastArrived, lastListed, upserts, overtook, partialUpsert, rejected,
                   storedExpired, ignored>>
    /\ UNCHANGED <<bestVars, resolveVars, storeVars, transportVars, sdkVars, proverVars>>

\* A browser reports the unhandled rejection and goes on.
Report ==
    /\ alive
    /\ unhandled
    /\ microtasks = <<>>
    /\ unhandled' = FALSE
    /\ UNCHANGED <<broadcasters, tokenFees, microtasks, alive, delivered,
                   lastArrived, lastListed, upserts, overtook, partialUpsert, rejected,
                   storedExpired, ignored>>
    /\ UNCHANGED <<bestVars, resolveVars, storeVars, transportVars, sdkVars, proverVars>>

Next ==
    \/ \E contentTopic \in ContentTopics, payload \in Payloads :
           Deliver(contentTopic, payload)
    \/ Resume
    \/ Terminate
    \/ Report

Spec == Init /\ [][Next]_vars

----------------------------------------------------------------------------
(* Claims on Spec *)

\* The payloads that carry a whole announcement: the payload, the announcement
\* it was built from, the signature, and whether the hex text has the 0x prefix.
WireTable ==
    {[payload |-> PayloadOf(env), announcement |-> a, signature |-> env.signature,
      prefixed |-> pre] :
        <<env, a, pre>> \in {w \in Envelopes \X Announcements \X BOOLEAN :
                                w[1] = EnvelopeOf(w[2], w[1].signature, w[3])}}

\* The text before the first "." is exactly "8".
MajorIsEight(version) ==
    \/ version = <<56>>
    \/ Len(version) >= 2 /\ version[1] = 56 /\ version[2] = 46

Complete(a) == a.missing = {"identifier"}

TokenFeeOf(token, addr) == MapGet(MapGet(tokenFees, token), addr)

HasTokenFee(token, addr) ==
    MapHas(tokenFees, token) /\ MapHas(MapGet(tokenFees, token), addr)

\* C1: an announcement is accepted by decodeBroadcasterFeeMessage exactly when the
\* text of its version before the first "." is "8"; a rejected one raises the
\* incompatible-version error with the received and the expected version, and no
\* record of the registry has another major version.
C1_VersionGate ==
    /\ \A i \in 1..Len(microtasks) : \A w \in WireTable :
          (/\ microtasks[i].msg.payload = w.payload
           /\ w.prefixed
           /\ "version" \notin w.announcement.missing)
          => /\ microtasks[i].settled.ok <=> MajorIsEight(w.announcement.version)
             /\ ~microtasks[i].settled.ok =>
                   microtasks[i].settled.error =
                       [name |-> "Incompatible broadcaster version",
                        got |-> w.announcement.version, expected |-> <<56>>]
    /\ \A e \in broadcasters : MajorIsEight(e[2].version)

\* C1 witness: "7.9.0" rejected and "8.2.3" accepted wait side by side.
C1_Witness ==
    \E i, j \in 1..Len(microtasks) :
        /\ ~microtasks[i].settled.ok
        /\ microtasks[i].settled.error.got = Text790
        /\ microtasks[j].settled.ok
        /\ microtasks[j].settled.feeMessageData.version = Text823

\* C2: every envelope {data: hex(UTF-8(JSON(a))), signature: s} of a complete
\* announcement a with major version 8 decodes to a and s, the hex text with or
\* without the 0x prefix.
C2_RoundTrip ==
    \A i \in 1..Len(microtasks) : \A w \in WireTable :
        (/\ microtasks[i].msg.payload = w.payload
         /\ Complete(w.announcement)
         /\ MajorIsEight(w.announcement.version))
        => /\ microtasks[i].settled.ok
           /\ microtasks[i].settled.feeMessageData = w.announcement
           /\ microtasks[i].settled.signature = w.signature

\* C3: the registry holds at most one record per railgunAddress and one entry per
\* (token, railgunAddress), and once every arrived announcement is upserted
\* whole, the entry's rate is the one last announced for the token by the
\* broadcaster.
C3_RegistryOverwrite ==
    /\ \A e1, e2 \in broadcasters : e1[1] = e2[1] => e1 = e2
    /\ \A e1, e2 \in tokenFees : e1[1] = e2[1] => e1 = e2
    /\ \A t \in tokenFees : \A e1, e2 \in t[2] : e1[1] = e2[1] => e1 = e2
    /\ (microtasks = <<>> /\ ~partialUpsert) =>
          \A a \in RailgunAddresses, t \in Tokens : \A rate \in lastListed[a, t] :
              HasTokenFee(t, a) /\ TokenFeeOf(t, a).feePerUnitGas = rate

\* C3 witness: a second announcement of A is upserted and (USDC, A) has rate 20.
C3_Witness ==
    /\ microtasks = <<>>
    /\ ~partialUpsert
    /\ upserts["A"] >= 2
    /\ lastListed["A", USDC] = {20}
    /\ HasTokenFee(USDC, "A")
    /\ TokenFeeOf(USDC, "A").feePerUnitGas = 20

\* C4: once every delivered message is handled, the registry holds, for each
\* broadcaster, the record of its last arrived announcement and that
\* announcement's rate for every token it lists, whatever the feeExpiration
\* values.
C4_LastArrivalWins ==
    microtasks = <<>> =>
        \A a \in RailgunAddresses : \A d \in lastArrived[a] :
            /\ MapHas(broadcasters, a)
            /\ MapGet(broadcasters, a) = d
            /\ AllRatesParse(d) =>
                  \A i \in 1..Len(d.fees) :
                      /\ HasTokenFee(d.fees[i][1], a)
                      /\ TokenFeeOf(d.fees[i][1], a).feePerUnitGas
                            = BigInt(d.fees[i][2]).value

\* C4 witness: two announcements of one broadcaster were suspended together, the
\* later arrival with the earlier feeExpiration, and both are handled.
C4_Witness ==
    /\ overtook
    /\ microtasks = <<>>
    /\ \E a \in RailgunAddresses :
          /\ upserts[a] >= 2
          /\ MapHas(broadcasters, a)
          /\ MapGet(broadcasters, a).feeExpiration = 1000

\* C5: after a message whose decoding failed, the subscription keeps running.
C5_BadMessageNeverBlocks == rejected => alive

\* C6: a step that handles a message rejected by decoding, and a step that
\* delivers a message, leave both registry maps as they were.
C6_RejectedDropped ==
    [][ (\/ delivered' # delivered
         \/ /\ microtasks # <<>>
            /\ ~Head(microtasks).settled.ok
            /\ microtasks' = Tail(microtasks))
        => (broadcasters' = broadcasters /\ tokenFees' = tokenFees) ]_vars

\* C6 witness: a rejected message has been handled with the registry filled.
C6_Witness ==
    /\ rejected
    /\ unhandled
    /\ ~partialUpsert
    /\ microtasks = <<>>
    /\ broadcasters # {}
    /\ tokenFees # {}

\* The envelope lacks `data` or `signature`.
LacksField(e) == e.missing \cap {"data", "signature"} # {}

\* The hex text, with or without the 0x prefix, has only hexadecimal digits.
ValidHex(text) ==
    LET digits == IF Len(text) >= 2 /\ text[1] = Chr.zero /\ text[2] = Chr.x
                  THEN SubSeq(text, 3, Len(text)) ELSE text
    IN  \A i \in 1..Len(digits) : HexDigitValue(digits[i]) >= 0

\* The bytes of the hex text are UTF-8 (of the bytes of the model, those below 128).
ValidUtf8(text) ==
    LET prefixed == IF Len(text) >= 2 /\ text[1] = Chr.zero /\ text[2] = Chr.x
                    THEN text ELSE <<Chr.zero, Chr.x>> \o text
        bytes == hexToBytes(prefixed).bytes
    IN  \A i \in 1..Len(bytes) : bytes[i] < 128

\* C16: a delivered envelope that lacks `data` or `signature`, or whose `data`
\* is no valid hex or no valid UTF-8, is rejected by the decoding.
C16_MalformedEnvelopeRejected ==
    \A i \in 1..Len(microtasks) : \A e \in Envelopes :
        (/\ microtasks[i].msg.payload = PayloadOf(e)
         /\ \/ LacksField(e)
            \/ ~ValidHex(e.data)
            \/ ~ValidUtf8(e.data))
        => ~microtasks[i].settled.ok

\* C17: an announcement that lacks a required field is dropped before the
\* upsert: the registry holds no record and no entry made from one.
C17_IncompleteNeverUpserted ==
    /\ \A i \in 1..Len(microtasks) : \A w \in WireTable :
          (/\ microtasks[i].msg.payload = w.payload
           /\ w.prefixed
           /\ ~Complete(w.announcement))
          => ~ReachesUpsert(microtasks[i].settled)
    /\ \A e \in broadcasters : Complete(e[2])
    /\ \A t \in tokenFees : \A e \in t[2] : e[2].feesID # "undefined"

\* C18: every stored entry has a feePerUnitGas that is not negative.
C18_RateNonNegative ==
    \A t \in tokenFees : \A e \in t[2] : e[2].feePerUnitGas >= 0

\* C19: every entry keyed by (token, railgunAddress) has one owning record: the
\* record the broadcasters map holds under that railgunAddress, whose own
\* railgunAddress is the key.
C19_EntryHasOwner ==
    \A t \in tokenFees : \A e \in t[2] :
        /\ Cardinality({r \in broadcasters : r[1] = e[1]}) = 1
        /\ \A r \in broadcasters : r[1] = e[1] => r[2].railgunAddress = e[1]

\* C19 witness: an upsert of A threw at its second rate after it had written
\* the entry (USDC, A); the record of A is there.
C19_Witness ==
    /\ partialUpsert
    /\ microtasks = <<>>
    /\ HasTokenFee(USDC, "A")
    /\ TokenFeeOf(USDC, "A").feePerUnitGas = 20
    /\ MapHas(broadcasters, "A")
    /\ Len(MapGet(broadcasters, "A").fees) = 2

SameAsRecord(entry, record) ==
    /\ entry.expiration = record.feeExpiration
    /\ entry.feesID = record.feesID
    /\ entry.availableWallets = record.availableWallets
    /\ entry.relayAdapt = record.relayAdapt
    /\ entry.reliability = record.reliability

ListedTokens(record) == {record.fees[i][1] : i \in 1..Len(record.fees)}

\* The tokens of the record whose entry its upsert wrote: those listed before
\* the first rate that is no number.
WrittenTokens(record) ==
    {record.fees[i][1] : i \in {k \in 1..Len(record.fees) :
                                   \A j \in 1..k : BigInt(record.fees[j][2]).ok}}

\* C20 as stated: every entry keyed by a broadcaster has the expiration,
\* feesID, availableWallets, relayAdapt and reliability of the broadcaster's
\* current record, and the broadcaster has no entry for a token its current
\* record does not list.
C20_EntriesRebuilt ==
    \A t \in tokenFees : \A e \in t[2] : \A r \in broadcasters :
        r[1] = e[1] =>
            /\ SameAsRecord(e[2], r[2])
            /\ t[1] \in ListedTokens(r[2])

\* C20 amended: for every token whose entry the upsert of the broadcaster's
\* current record wrote, the entry is there with the expiration, feesID,
\* availableWallets, relayAdapt and reliability of that record and the rate
\* the record lists; an entry for another token keeps the values of the
\* announcement that wrote it.
C20_ListedEntriesRebuilt ==
    \A r \in broadcasters :
        /\ \A i \in 1..Len(r[2].fees) :
              r[2].fees[i][1] \in WrittenTokens(r[2]) =>
                  /\ HasTokenFee(r[2].fees[i][1], r[1])
                  /\ SameAsRecord(TokenFeeOf(r[2].fees[i][1], r[1]), r[2])
                  /\ TokenFeeOf(r[2].fees[i][1], r[1]).feePerUnitGas
                        = BigInt(r[2].fees[i][2]).value
        /\ \A t \in tokenFees : \A e \in t[2] :
              (e[1] = r[1] /\ t[1] \notin WrittenTokens(r[2])) =>
                  \E a \in Announcements :
                      /\ a.railgunAddress = r[1]
                      /\ t[1] \in WrittenTokens(a)
                      /\ SameAsRecord(e[2], a)

\* C20 witness: A announced USDC and WETH with expiration 1000, then USDC alone
\* with expiration 5000: (USDC, A) follows the record, (WETH, A) is kept.
C20_Witness ==
    /\ microtasks = <<>>
    /\ upserts["A"] = 2
    /\ MapHas(broadcasters, "A")
    /\ MapGet(broadcasters, "A").feeExpiration = 5000
    /\ ListedTokens(MapGet(broadcasters, "A")) = {USDC}
    /\ HasTokenFee(USDC, "A") /\ TokenFeeOf(USDC, "A").expiration = 5000
    /\ HasTokenFee(WETH, "A") /\ TokenFeeOf(WETH, "A").expiration = 1000

\* The record the map holds for a broadcaster, and the entry the index holds
\* for a token and a broadcaster: a set of at most one.
RecordAt(b, addr) == {r[2] : r \in {e \in b : e[1] = addr}}

EntryAt(tf, token, addr) ==
    IF MapHas(tf, token) /\ MapHas(MapGet(tf, token), addr)
    THEN {MapGet(MapGet(tf, token), addr)}
    ELSE {}

\* The step is the upsert of an announcement of broadcaster addr.
Upserting(addr) ==
    /\ microtasks # <<>>
    /\ microtasks' = Tail(microtasks)
    /\ ReachesUpsert(Head(microtasks).settled)
    /\ Head(microtasks).settled.feeMessageData.railgunAddress = addr

\* C21: a step changes the record of a broadcaster only if it is the upsert of
\* an announcement of that broadcaster, and the entry (t, R) only if it is the
\* upsert of an announcement of R that lists t: entries of R for tokens the
\* announcement does not list, and the records and entries of every other
\* broadcaster, stay as they are.
C21_UpsertFrame ==
    [][\A addr \in RailgunAddresses :
          /\ RecordAt(broadcasters', addr) # RecordAt(broadcasters, addr)
                => Upserting(addr)
          /\ \A t \in Tokens :
                EntryAt(tokenFees', t, addr) # EntryAt(tokenFees, t, addr)
                    => /\ Upserting(addr)
                       /\ t \in ListedTokens(Head(microtasks).settled.feeMessageData)]_vars

\* C21 witness: A and B have each announced USDC once; each entry has the
\* values of its own broadcaster's announcement.
C21_Witness ==
    /\ microtasks = <<>>
    /\ upserts = [a \in RailgunAddresses |-> 1]
    /\ \A a \in RailgunAddresses :
          /\ MapHas(broadcasters, a)
          /\ HasTokenFee(USDC, a)
          /\ SameAsRecord(TokenFeeOf(USDC, a), MapGet(broadcasters, a))
    /\ TokenFeeOf(USDC, "A").feePerUnitGas = 10
    /\ TokenFeeOf(USDC, "B").feePerUnitGas = 20
    /\ TokenFeeOf(USDC, "A").expiration # TokenFeeOf(USDC, "B").expiration

\* The envelopes that carry the same `data` as envelope e and another
\* signature, or none.
SameDataAs(e) ==
    {f \in Envelopes : /\ "data" \notin f.missing
                       /\ f.data = e.data
                       /\ <<f.signature, f.missing>> # <<e.signature, e.missing>>}

TaskOf(payload) ==
    [msg |-> [payload |-> payload, contentTopic |-> feeContentTopic(ClientChain)],
     settled |-> decodeBroadcasterFeeMessage(payload)]

\* C23: had a waiting message carried another signature with the same `data`, it
\* would have been accepted or rejected alike, with the same announcement, and
\* its handling would leave the same registry.
C23_SignatureIgnored ==
    \A i \in 1..Len(microtasks) : \A e \in Envelopes :
        (microtasks[i].msg.payload = PayloadOf(e) /\ "data" \notin e.missing) =>
            \A f \in SameDataAs(e) :
                LET other == TaskOf(PayloadOf(f))
                IN  /\ other.settled.ok = microtasks[i].settled.ok
                    /\ other.settled.feeMessageData = microtasks[i].settled.feeMessageData
                    /\ other.settled.error = microtasks[i].settled.error
                    /\ handleFeesMessage(broadcasters, tokenFees, other)
                          = handleFeesMessage(broadcasters, tokenFees, microtasks[i])

\* C23 witness: the sample announcement of A was upserted, and the same `data`
\* signed "sig2" waits, accepted.
C23_Witness ==
    /\ upserts["A"] = 1
    /\ MapHas(broadcasters, "A")
    /\ MapGet(broadcasters, "A") = SampleAnnouncement
    /\ Len(microtasks) = 1
    /\ microtasks[1].msg.payload = PayloadOf(EnvelopeOf(SampleAnnouncement, "sig2", TRUE))
    /\ microtasks[1].settled.ok
    /\ microtasks[1].settled.signature = "sig2"

\* C27: between the runs of the handlers, which is where a query or another
\* handler sees the registry, every record stored has all the entries of its
\* announcement written: one entry per listed token, with the record's values.
C27_UpsertAtomic ==
    \A r \in broadcasters : \A t \in ListedTokens(r[2]) :
        /\ HasTokenFee(t, r[1])
        /\ SameAsRecord(TokenFeeOf(t, r[1]), r[2])

\* C28: no handleFeesMessage call ends in a rejection that nothing handles.
C28_ErrorsCaught == ~unhandled

\* C29: the handling of an announcement with a rate that is no number leaves
\* the registry as it was.
C29_FailedNotApplied ==
    [][\A addr \in RailgunAddresses :
          (Upserting(addr) /\ ~AllRatesParse(Head(microtasks).settled.feeMessageData))
              => /\ broadcasters' = broadcasters
                 /\ tokenFees' = tokenFees]_vars

\* C35: the delivery of a message whose contentTopic is not the fee topic of
\* the client's chain decodes nothing, suspends no handleFeesMessage call and
\* leaves the registry as it was; only messages of the fee topic are handled.
C35_OtherTopicIgnored ==
    /\ [](\A i \in 1..Len(microtasks) :
             microtasks[i].msg.contentTopic = feeContentTopic(ClientChain))
    /\ [][ignored' = ignored + 1
            => /\ microtasks' = microtasks
               /\ rejected' = rejected
               /\ broadcasters' = broadcasters
               /\ tokenFees' = tokenFees]_vars

\* C35 witness: two messages were delivered on the fee topic of another chain,
\* and the registry is as it was created.
C35_Witness ==
    /\ ignored = MaxDeliveries
    /\ delivered = ignored
    /\ microtasks = <<>>
    /\ ~rejected
    /\ broadcasters = {}
    /\ tokenFees = {}

----------------------------------------------------------------------------
(* SpecBest: RelayerSelector.best(token, now) over a filled registry *)

SelAddresses == {"A", "B", "C"}
Nows == {500, 1000, 3000, 5000}

\* recordsForToken(token): the entries of the token, in the order of the map.
recordsForToken(tf, token) ==
    IF MapHas(tf, token) THEN SetToSeq(MapGet(tf, token)) ELSE <<>>

\* Ascending feePerUnitGas; the reliability is not looked at.
sortsBeforeByFeeOnly(e1, e2) == e1[2].feePerUnitGas < e2[2].feePerUnitGas

\* Ascending feePerUnitGas, ties by descending reliability.
sortsBefore(e1, e2) ==
    \/ e1[2].feePerUnitGas < e2[2].feePerUnitGas
    \/ /\ e1[2].feePerUnitGas = e2[2].feePerUnitGas
       /\ e1[2].reliability > e2[2].reliability

RECURSIVE insertSorted(_, _)
insertSorted(e, sorted) ==
    IF sorted = <<>> THEN <<e>>
    ELSE IF sortsBefore(e, Head(sorted)) THEN <<e>> \o sorted
    ELSE <<Head(sorted)>> \o insertSorted(e, Tail(sorted))

RECURSIVE sortEntries(_)
sortEntries(entries) ==
    IF entries = <<>> THEN <<>>
    ELSE insertSorted(Head(entries), sortEntries(Tail(entries)))

unexpired(e, now) == ~(e[2].expiration <= now)

\* best(token, now): the first of the unexpired entries in order, absent ({})
\* when none remains.
best(tf, token, now) ==
    LET live == SelectSeq(recordsForToken(tf, token), LAMBDA e : unexpired(e, now))
        ordered == sortEntries(live)
    IN  IF ordered = <<>> THEN {} ELSE {Head(ordered)}

RECURSIVE upsertAll(_, _, _)
upsertAll(b, tf, ds) ==
    IF ds = <<>> THEN [broadcasters |-> b, tokenFees |-> tf]
    ELSE LET u == upsert(b, tf, Head(ds))
         IN  upsertAll(u.broadcasters, u.tokenFees, Tail(ds))

SelAnnouncements ==
    {Announcement(a, << <<USDC, r>> >>, exp, Text823, {}) :
        a \in SelAddresses, r \in {Rate0x5, Rate0xa}, exp \in FeeExpirations}

\* Registries left by the announcements of up to three broadcasters.
InitBestRegistry ==
    \E announced \in SUBSET SelAnnouncements :
        /\ \A d1, d2 \in announced : d1.railgunAddress = d2.railgunAddress => d1 = d2
        /\ LET reg == upsertAll({}, {}, SetToSeq(announced))
           IN  /\ broadcasters = reg.broadcasters
               /\ tokenFees = reg.tokenFees
    /\ microtasks = <<>>
    /\ unhandled = FALSE
    /\ alive = TRUE
    /\ delivered = 0
    /\ lastArrived = [a \in RailgunAddresses |-> {}]
    /\ lastListed = [a \in RailgunAddresses, t \in Tokens |-> {}]
    /\ upserts = [a \in RailgunAddresses |-> 0]
    /\ overtook = FALSE
    /\ partialUpsert = FALSE
    /\ rejected = FALSE
    /\ storedExpired = FALSE
    /\ ignored = 0

\* The caller asks for the best broadcaster of a token at its clock.
Best(token, now) ==
    /\ selToken' = token
    /\ selNow' = now
    /\ candidate' = best(tokenFees, token, now)
    /\ UNCHANGED <<registryVars, resolveVars, storeVars, transportVars, sdkVars, proverVars>>

NextBest == \E token \in Tokens, now \in Nows : Best(token, now)

InitSelection ==
    /\ InitBestRegistry /\ InitBest /\ InitResolve /\ InitStore /\ InitTransport
    /\ InitSdk /\ InitProver

SpecBest == InitSelection /\ [][NextBest]_vars

\* C7: best(token, now) is absent exactly when no entry of the token has
\* expiration > now; otherwise it is an unexpired entry of the token whose fee is
\* minimal among the unexpired entries and whose reliability is maximal among
\* those of that fee.
C7_BestSelection ==
    selNow # -1 =>
        LET entries == IF MapHas(tokenFees, selToken) THEN MapGet(tokenFees, selToken) ELSE {}
            live == {e \in entries : e[2].expiration > selNow}
        IN  /\ candidate = {} <=> live = {}
            /\ Cardinality(candidate) <= 1
            /\ \A c \in candidate :
                  /\ c \in live
                  /\ \A o \in live :
                        /\ c[2].feePerUnitGas <= o[2].feePerUnitGas
                        /\ o[2].feePerUnitGas = c[2].feePerUnitGas
                              => o[2].reliability <= c[2].reliability

\* C7 witness: A fee 10 reliability 0.5, B fee 10 reliability 0.9, C fee 5
\* expired: B is returned.
C7_Witness ==
    /\ selToken = USDC
    /\ selNow = 3000
    /\ HasTokenFee(USDC, "A") /\ HasTokenFee(USDC, "B") /\ HasTokenFee(USDC, "C")
    /\ TokenFeeOf(USDC, "A").feePerUnitGas = 10 /\ TokenFeeOf(USDC, "A").reliability = 50
    /\ TokenFeeOf(USDC, "A").expiration = 5000
    /\ TokenFeeOf(USDC, "B").feePerUnitGas = 10 /\ TokenFeeOf(USDC, "B").reliability = 90
    /\ TokenFeeOf(USDC, "B").expiration = 5000
    /\ TokenFeeOf(USDC, "C").feePerUnitGas = 5 /\ TokenFeeOf(USDC, "C").expiration = 1000
    /\ candidate = {<<"B", TokenFeeOf(USDC, "B")>>}

\* Math.floor(Date.now() / 1000): the caller's clock counts seconds, the
\* announcements' feeExpiration milliseconds.
MillisPerSecond == 1000

\* C31: best(token, now), now in Unix seconds, returns no entry whose
\* expiration, in Unix milliseconds, is an instant before now.
C31_OneTimeScale ==
    selNow # -1 =>
        \A c \in candidate : c[2].expiration >= selNow * MillisPerSecond

----------------------------------------------------------------------------
(* SpecResolve: FeeResolver.resolve(candidate, buildTx, estimateGas,
   maxIterations, toleranceUnits), one call from its start to its return *)

MaxIterationsBound == 3

GasValues == {21000, 22000, 23000}
Rates == {0, 100}
Tolerances == {0, 100000}
FeeAmounts == {0} \cup {g * r : g \in GasValues, r \in Rates}
Estimators == [FeeAmounts -> GasValues]

\* The fee is an extra output of the transaction: the transaction is what the
\* fee makes it.
buildTx(fee) == [fee |-> fee]

\* The caller's estimator, a function of the transaction alone.
estimateGas(est, tx) == est[tx.fee]

Abs(n) == IF n < 0 THEN 0 - n ELSE n

newFee(est, rate, fee) == estimateGas(est, buildTx(fee)) * rate

\* The search started from no fee at all.
InitialFeeZero(est, rate) == 0

\* start with feeAmount = estimateGas(buildTx(0)) * feePerUnitGas
InitialFee(est, rate) == newFee(est, rate, 0)

\* Only a rise of the fee is measured against the tolerance.
ConvergedOneSided(new, fee, tol) == new - fee <= tol

\* stop successfully when |feeAmount' - feeAmount| <= toleranceUnits
Converged(new, fee, tol) == Abs(new - fee) <= tol

\* One iteration more than the budget.
ExceededOffByOne(n, max) == n > max

\* maxIterations is exceeded without stabilizing
Exceeded(n, max) == n >= max

\* The fee reported is the one computed last, not the one the transaction
\* was built with.
SuccessNewFee(tx, fee, n) ==
    [status |-> "ok", tx |-> {tx},
     feeAmount |-> {estimateGas(estimator, tx) * feePerUnitGas}, iterations |-> n]

\* return the last built transaction and fee
Success(tx, fee, n) ==
    [status |-> "ok", tx |-> {tx}, feeAmount |-> {fee}, iterations |-> n]

ConvergenceError(n) ==
    [status |-> "ConvergenceError", tx |-> {}, feeAmount |-> {}, iterations |-> n]

\* resolve is called: the first estimate, on the transaction without fee.
Start(est, rate, max, tol) ==
    /\ pc = "idle"
    /\ estimator' = est
    /\ feePerUnitGas' = rate
    /\ maxIterations' = max
    /\ toleranceUnits' = tol
    /\ feeAmount' = InitialFee(est, rate)
    /\ iterations' = 0
    /\ pc' = "loop"
    /\ UNCHANGED <<result, registryVars, bestVars, storeVars, transportVars, sdkVars, proverVars>>

\* One turn of the loop: give up when the budget is used up; otherwise rebuild
\* with the current fee, re-estimate, and either return the transaction just
\* built with the fee it carries, or go on with the new fee.
Iterate ==
    /\ pc = "loop"
    /\ IF Exceeded(iterations, maxIterations)
       THEN /\ pc' = "failed"
            /\ result' = ConvergenceError(iterations)
            /\ UNCHANGED <<feeAmount, iterations>>
       ELSE LET tx == buildTx(feeAmount)
                new == estimateGas(estimator, tx) * feePerUnitGas
            IN  /\ iterations' = iterations + 1
                /\ IF Converged(new, feeAmount, toleranceUnits)
                   THEN /\ pc' = "done"
                        /\ result' = Success(tx, feeAmount, iterations + 1)
                        /\ UNCHANGED feeAmount
                   ELSE /\ pc' = "loop"
                        /\ feeAmount' = new
                        /\ UNCHANGED result
    /\ UNCHANGED <<estimator, feePerUnitGas, maxIterations, toleranceUnits,
                   registryVars, bestVars, storeVars, transportVars, sdkVars, proverVars>>

NextResolve ==
    \/ \E est \in Estimators, rate \in Rates,
          max \in 0..MaxIterationsBound, tol \in Tolerances :
            Start(est, rate, max, tol)
    \/ Iterate

SpecResolve == Init /\ [][NextResolve]_vars

\* resolve is synchronous: once called it runs to its return.
FairSpecResolve == SpecResolve /\ WF_vars(NextResolve)

\* C8: whenever resolve succeeds with (tx, feeAmount), the gas estimated on
\* the transaction built with feeAmount, times the candidate's feePerUnitGas,
\* is within toleranceUnits of feeAmount (equal to it when toleranceUnits is
\* 0); and the search starts from estimateGas(buildTx(0)) * feePerUnitGas.
C8_FixedPoint ==
    /\ pc = "done" =>
          /\ result.status = "ok"
          /\ \A fee \in result.feeAmount :
                LET again == estimator[fee] * feePerUnitGas
                IN  /\ again - fee <= toleranceUnits
                    /\ fee - again <= toleranceUnits
                    /\ toleranceUnits = 0 => again = fee
          /\ result.feeAmount # {}
    /\ (pc = "loop" /\ iterations = 0) =>
          feeAmount = estimator[0] * feePerUnitGas

\* C8 witness: a success after the fee moved twice, down and up, within a
\* tolerance of 0.
C8_Witness ==
    /\ pc = "done"
    /\ toleranceUnits = 0
    /\ iterations = 3
    /\ feePerUnitGas = 100
    /\ estimator[0] = 23000
    /\ estimator[2300000] = 21000
    /\ result.feeAmount = {2200000}

\* C9: resolve performs at most maxIterations iterations; a failure is a
\* ConvergenceError carrying the iteration count, with no transaction and no
\* fee; and every call ends, in success or in failure.
C9_Terminates ==
    /\ [](/\ iterations <= maxIterations
          /\ pc = "failed" =>
                /\ result.status = "ConvergenceError"
                /\ result.iterations = iterations
                /\ result.tx = {}
                /\ result.feeAmount = {})
    /\ <>(pc \in {"done", "failed"})

\* C9 witness: an estimator that makes the fee oscillate between 2,100,000 and
\* 2,200,000 uses up a budget of 3 iterations.
C9_Witness ==
    /\ pc = "failed"
    /\ maxIterations = 3
    /\ iterations = 3
    /\ feePerUnitGas = 100
    /\ toleranceUnits = 0
    /\ estimator[2100000] = 22000
    /\ estimator[2200000] = 21000
    /\ estimator[0] = 21000

\* The example: feePerUnitGas 100, 21000 gas without fee, 22000 gas with any
\* fee, the default tolerance and a budget of the two iterations it takes.
ExampleCall ==
    /\ pc # "idle"
    /\ feePerUnitGas = 100
    /\ estimator[0] = 21000
    /\ \A fee \in FeeAmounts \ {0} : estimator[fee] = 22000
    /\ toleranceUnits = 0
    /\ maxIterations >= 2

\* C10: in the example, resolve succeeds with feeAmount = 2,200,000 after at
\* most 2 iterations.
C10_ConvergenceExample ==
    (ExampleCall /\ pc \in {"done", "failed"}) =>
        /\ pc = "done"
        /\ result.status = "ok"
        /\ result.feeAmount = {2200000}
        /\ result.iterations <= 2

\* C10 witness: the example has returned 2,200,000 at its second iteration.
C10_Witness ==
    /\ ExampleCall
    /\ pc = "done"
    /\ result.feeAmount = {2200000}
    /\ result.tx = {buildTx(2200000)}
    /\ result.iterations = 2

\* C36: on success the transaction returned is the one built with exactly the
\* fee returned, also when toleranceUnits is greater than 0 and the fee
\* computed last differs from it.
C36_ReturnedTxCarriesFee ==
    pc = "done" =>
        /\ result.status = "ok"
        /\ \E fee \in FeeAmounts :
              /\ result.feeAmount = {fee}
              /\ result.tx = {buildTx(fee)}

\* C36 witness: with a tolerance of 100,000 a call succeeded with the fee
\* 2,100,000 in the transaction although the fee computed last is 2,200,000.
C36_Witness ==
    /\ pc = "done"
    /\ toleranceUnits = 100000
    /\ feePerUnitGas = 100
    /\ estimator[0] = 21000
    /\ estimator[2100000] = 22000
    /\ result.feeAmount = {2100000}
    /\ result.tx = {buildTx(2100000)}

----------------------------------------------------------------------------
(* SpecStore: retrieveHistorical of the Waku transport, against a store node
   that holds the messages in chronological order and pages forward *)

MaxStored == 2
MaxCalls == 2

HISTORICAL_LOOK_BACK_MS == 60000

Instants == {0, 80000}
StoreTopics == ContentTopics
Kinds == {"timed", "undecodable"}

\* IDecodedMessage.timestamp: a Date, or undefined.
DateOf(ms) == [has |-> TRUE, time |-> ms]
NoDate == [has |-> FALSE, time |-> 0]

\* The number is looked at instead of the Date: the epoch is taken for absent.
toTimestampOfNumber(date) == IF date.has /\ date.time # 0 THEN {date.time} ELSE {}

\* timestamp ? timestamp.getTime() : undefined; the result is absent ({}) or
\* the Unix milliseconds.
toTimestamp(date) == IF date.has THEN {date.time} ELSE {}

\* The WakuMessage made of a decoded message.
toWakuMessage(m) ==
    [payload |-> m.payload, contentTopic |-> m.contentTopic,
     timestamp |-> toTimestamp(m.timestamp)]

\* What the store node holds of one message: its hash, the time it is indexed
\* by, and whether the decoder yields a message for it.
Stored(hash, topic, kind, now) ==
    [hash |-> hash, contentTopic |-> topic, payload |-> <<hash>>,
     timestamp |-> IF kind = "untimed" THEN NoDate ELSE DateOf(now),
     time |-> now, decodes |-> kind # "undecodable"]

\* node.store.createCursor(message)
createCursor(m) == m.hash

\* Every call asks for the look-back window.
queryOptionsWindowOnly(topic, cursors, now) ==
    [contentTopics |-> {topic}, paginationCursor |-> {},
     timeRange |-> {<<now - HISTORICAL_LOOK_BACK_MS, now>>}]

\* Lines 120-137: resume after the remembered message, or ask for the
\* look-back window.
queryOptions(topic, cursors, now) ==
    IF MapHas(cursors, topic)
    THEN [contentTopics |-> {topic},
          paginationCursor |-> {createCursor(MapGet(cursors, topic))},
          timeRange |-> {}]
    ELSE [contentTopics |-> {topic}, paginationCursor |-> {},
          timeRange |-> {<<now - HISTORICAL_LOOK_BACK_MS, now>>}]

\* The store node's answer: the messages of the content topics, forward from
\* the cursor, within the time range (both ends included).
storeQuery(st, options) ==
    SelectSeq(st, LAMBDA e :
        /\ e.contentTopic \in options.contentTopics
        /\ \A c \in options.paginationCursor : e.hash > c
        /\ \A r \in options.timeRange : r[1] <= e.time /\ e.time <= r[2])

RECURSIVE collect(_, _)
\* Lines 142-158: what the decoder yields nothing for is skipped.
collect(page, acc) ==
    IF page = <<>> THEN acc
    ELSE IF ~Head(page).decodes THEN collect(Tail(page), acc)
    ELSE collect(Tail(page),
                 [latestDecodedMessage |-> {Head(page)},
                  messages |-> Append(acc.messages, toWakuMessage(Head(page)))])

\* Lines 160-163.
updateCursor(cursors, topic, latest) ==
    IF latest = {} THEN cursors
    ELSE MapSet(cursors, topic, CHOOSE m \in latest : TRUE)

SameTopicReturned(cs, topic) ==
    \A i \in 1..Len(cs) : cs[i].topic = topic => cs[i].phase = "returned"

\* No call on the topic is under way.
Quiet(cs, topic) ==
    \A i \in 1..Len(cs) : cs[i].topic = topic => cs[i].phase # "answered"

InFlight(cs) == {i \in 1..Len(cs) : cs[i].phase = "answered"}

\* Lines 116-141: the call reads its cursor and the clock and sends its query,
\* which the store node answers from what it holds; the answer is under way.
\* Two executions overlap at most.
Begin(topic) ==
    /\ Len(calls) < MaxCalls
    /\ Cardinality(InFlight(calls)) <= 1
    /\ LET options == queryOptions(topic, lastMessageByTopic, clock)
       IN  calls' = Append(calls,
              [phase |-> "answered", topic |-> topic, options |-> options,
               page |-> storeQuery(store, options),
               seen |-> Len(store), now |-> clock, messages |-> <<>>,
               alone |-> SameTopicReturned(calls, topic),
               quiet |-> Quiet(calls, topic), read |-> {},
               before |-> {}, after |-> {}])
    /\ UNCHANGED <<clock, store, lastMessageByTopic>>
    /\ UNCHANGED <<registryVars, bestVars, resolveVars, transportVars, sdkVars, proverVars>>

\* Lines 142-165: call i reads the answer, remembers the last decoded message
\* and returns.
Finish(i) ==
    /\ calls[i].phase = "answered"
    /\ LET got == collect(calls[i].page, [latestDecodedMessage |-> {}, messages |-> <<>>])
           cursors == updateCursor(lastMessageByTopic, calls[i].topic,
                                   got.latestDecodedMessage)
       IN  /\ lastMessageByTopic' = cursors
           /\ calls' = [calls EXCEPT ![i].phase = "returned",
                                     ![i].messages = got.messages,
                                     ![i].before = lastMessageByTopic,
                                     ![i].after = cursors]
    /\ UNCHANGED <<clock, store>>
    /\ UNCHANGED <<registryVars, bestVars, resolveVars, transportVars, sdkVars, proverVars>>

\* Lines 139-158: the generator rejects after call i has read the first k
\* messages of the answer; the rejection leaves the loop and the function, so
\* lines 160-165 are not reached and the caller gets the error.
Fail(i, k) ==
    /\ calls[i].phase = "answered"
    /\ k \in 0..Len(calls[i].page)
    /\ LET got == collect(SubSeq(calls[i].page, 1, k),
                          [latestDecodedMessage |-> {}, messages |-> <<>>])
       IN  calls' = [calls EXCEPT ![i].phase = "failed",
                                  ![i].read = got.messages,
                                  ![i].before = lastMessageByTopic,
                                  ![i].after = lastMessageByTopic]
    /\ UNCHANGED <<clock, store, lastMessageByTopic>>
    /\ UNCHANGED <<registryVars, bestVars, resolveVars, transportVars, sdkVars, proverVars>>

\* A message reaches the store node.
Publish(topic, kind) ==
    /\ Len(store) < MaxStored
    /\ store' = Append(store, Stored(Len(store) + 1, topic, kind, clock))
    /\ UNCHANGED <<clock, lastMessageByTopic, calls>>
    /\ UNCHANGED <<registryVars, bestVars, resolveVars, transportVars, sdkVars, proverVars>>

Tick(now) ==
    /\ now > clock
    /\ clock' = now
    /\ UNCHANGED <<store, lastMessageByTopic, calls>>
    /\ UNCHANGED <<registryVars, bestVars, resolveVars, transportVars, sdkVars, proverVars>>

NextStore ==
    \/ \E topic \in StoreTopics : Begin(topic)
    \/ \E i \in 1..Len(calls) : Finish(i)
    \/ \E topic \in StoreTopics, kind \in Kinds : Publish(topic, kind)
    \/ \E now \in Instants : Tick(now)

SpecStore == Init /\ [][NextStore]_vars

\* The decodable messages of a topic among the first n the store node holds.
Visible(topic, n) ==
    SelectSeq(SubSeq(store, 1, n), LAMBDA e : e.contentTopic = topic /\ e.decodes)

RECURSIVE WakuMessages(_)
WakuMessages(entries) ==
    IF entries = <<>> THEN <<>>
    ELSE <<toWakuMessage(Head(entries))>> \o WakuMessages(Tail(entries))

\* The hashes of the messages a call returned (the payload names the message).
Ids(messages) == {messages[k].payload[1] : k \in 1..Len(messages)}

EarlierOn(topic, j) == {i \in 1..(j - 1) : calls[i].topic = topic}

ReturnedBefore(topic, j) == UNION {Ids(calls[i].messages) : i \in EarlierOn(topic, j)}

Largest(S) == CHOOSE n \in S : \A m \in S : m <= n

CursorAt(cursors, topic) ==
    IF MapHas(cursors, topic) THEN createCursor(MapGet(cursors, topic)) ELSE 0

\* C12: whatever calls have returned, overlapping ones included, a returning
\* call never replaces the remembered message of its topic by an earlier one,
\* and leaves what is remembered for every other topic as it was.
C12_CursorForward ==
    \A i \in 1..Len(calls) :
        calls[i].phase = "returned" =>
            \A topic \in StoreTopics :
                /\ CursorAt(calls[i].after, topic) >= CursorAt(calls[i].before, topic)
                /\ topic # calls[i].topic =>
                      CursorAt(calls[i].after, topic) = CursorAt(calls[i].before, topic)

\* C30: sequential calls on a topic.  When a call has returned, every
\* decodable message of the topic that was published before the call began and
\* not before the start of the first call's look-back window has been
\* returned, by this call or an earlier one.
C30_GapRecovery ==
    \A topic \in StoreTopics :
        (\A i \in 1..Len(calls) : calls[i].topic = topic => calls[i].alone) =>
            \A j \in 1..Len(calls) :
                (calls[j].topic = topic /\ calls[j].phase = "returned") =>
                    LET first == CHOOSE i \in EarlierOn(topic, j) \cup {j} :
                                     \A h \in EarlierOn(topic, j) : i <= h
                        start == calls[first].now - HISTORICAL_LOOK_BACK_MS
                        published == Visible(topic, calls[j].seen)
                    IN  \A k \in 1..Len(published) :
                            published[k].time >= start =>
                                published[k].hash \in ReturnedBefore(topic, j)
                                                         \cup Ids(calls[j].messages)

----------------------------------------------------------------------------
(* SpecFailing: retrieveHistorical against a store node whose queries may
   fail *)

NextFailing ==
    \/ NextStore
    \/ \E i \in 1..Len(calls), k \in 0..MaxStored : Fail(i, k)

SpecFailing == Init /\ [][NextFailing]_vars

\* The call on the topic that follows call i.
NextOn(topic, i) ==
    {j \in (i + 1)..Len(calls) :
        /\ calls[j].topic = topic
        /\ \A h \in (i + 1)..(j - 1) : calls[h].topic # topic}

\* C34: a call that failed partway left the remembered message of its topic
\* as it was, and, calls on the topic not overlapping, the next call on the
\* topic that succeeds returns every message the failed call had read.
C34_FailedCallNoEffect ==
    \A i \in 1..Len(calls) :
        calls[i].phase = "failed" =>
            /\ calls[i].after = calls[i].before
            /\ \A j \in NextOn(calls[i].topic, i) :
                  (calls[i].quiet /\ calls[j].quiet /\ calls[j].phase = "returned") =>
                      Ids(calls[i].read) \subseteq Ids(calls[j].messages)

----------------------------------------------------------------------------
(* SpecExpiry: the subscription of Broadcasters.create while the clock moves *)

NextExpiry ==
    \/ Next
    \/ \E now \in Instants : Tick(now)

SpecExpiry == Init /\ [][NextExpiry]_vars

\* C22: an announcement that reaches the upsert is stored whatever its
\* feeExpiration, past ones included, and no step removes a record or an
\* entry: the key sets of both maps only grow.
C22_ExpirationIgnored ==
    [][/\ MapKeys(broadcasters) \subseteq MapKeys(broadcasters')
       /\ \A t \in tokenFees :
             /\ MapHas(tokenFees', t[1])
             /\ MapKeys(t[2]) \subseteq MapKeys(MapGet(tokenFees', t[1]))
       /\ \A addr \in RailgunAddresses :
             Upserting(addr) =>
                 RecordAt(broadcasters', addr)
                     = {Head(microtasks).settled.feeMessageData}]_vars

\* C22 witness: at 80000 ms an announcement of A with feeExpiration 1000 was
\* upserted; its record and its entry are there.
C22_Witness ==
    /\ storedExpired
    /\ clock = 80000
    /\ microtasks = <<>>
    /\ upserts["A"] = 1
    /\ MapHas(broadcasters, "A")
    /\ MapGet(broadcasters, "A").feeExpiration = 1000
    /\ HasTokenFee(USDC, "A")
    /\ TokenFeeOf(USDC, "A").expiration = 1000

----------------------------------------------------------------------------
(* SpecPoll: the polling loop of main over the subscription, while the clock
   moves *)

\* main.ts lines 107-113: one turn of `while (!broadcaster)`; the loop is left
\* once a query has returned a candidate.
Poll ==
    /\ alive
    /\ candidate = {}
    /\ Best(WETH, clock \div MillisPerSecond)

NextPoll ==
    \/ Next
    \/ \E now \in Instants : Tick(now)
    \/ Poll

SpecPoll == Init /\ [][NextPoll]_vars

\* C32: the loop is left only with a candidate for the token that an ingested
\* announcement lists and whose feeExpiration had not passed at the query.
C32_PollingExit ==
    \A c \in candidate :
        /\ selToken = WETH
        /\ HasTokenFee(WETH, c[1])
        /\ TokenFeeOf(WETH, c[1]) = c[2]
        /\ c[2].expiration >= selNow * MillisPerSecond

----------------------------------------------------------------------------
(* SpecTopic: Broadcasters.create, the decoder of the fee topic *)

MaxClients == 2

TopicChains == {0, 1, 10, 11, 56, 100, 101, 110, 111, 137, 1101, 8453, 42161,
                1115511, 11155111}

\* Lines 48-54.
WAKU_RAILGUN_PUB_SUB_TOPIC == "/waku/2/rs/1/1"
WAKU_RAILGUN_DEFAULT_SHARD ==
    [clusterId |-> 1, shard |-> 1, shardId |-> 1,
     pubsubTopic |-> WAKU_RAILGUN_PUB_SUB_TOPIC]

\* createDecoder(contentTopic, routingInfo)
createDecoder(contentTopic, routingInfo) ==
    [contentTopic |-> contentTopic, routingInfo |-> routingInfo]

\* Lines 92-119: the client of a chain and the decoder it subscribes with.
Create(chain_id) ==
    /\ Len(clients) < MaxClients
    /\ clients' = Append(clients,
           [chain_id |-> chain_id,
            feeDecoder |-> createDecoder(feeContentTopic(chain_id),
                                         WAKU_RAILGUN_DEFAULT_SHARD)])
    /\ UNCHANGED <<wasmInitialized, wasmExports, inits, gets>>
    /\ UNCHANGED <<registryVars, bestVars, resolveVars, storeVars, transportVars, proverVars>>

NextTopic == \E chain_id \in TopicChains : Create(chain_id)

SpecTopic == Init /\ [][NextTopic]_vars

\* The text is the decimal writing of n, without a leading zero.
IsDecimalOf(text, n) ==
    /\ AllDigits(text, 10)
    /\ Len(text) = 1 \/ text[1] # Chr.zero
    /\ ToNumber(text, 10, 0) = n

\* The text between "/railgun/v2/" and "-fees/json".
TopicBody(topic) == SubSeq(topic, Len(TextRailgunV2) + 1, Len(topic) - Len(TextFeesJson))

\* The topic is "/railgun/v2/{first}-{chain}-fees/json", both numbers in decimal.
HasTopicFormat(topic, first, chain) ==
    /\ Len(topic) >= Len(TextRailgunV2) + Len(TextFeesJson) + 3
    /\ SubSeq(topic, 1, Len(TextRailgunV2)) = TextRailgunV2
    /\ SubSeq(topic, Len(topic) - Len(TextFeesJson) + 1, Len(topic)) = TextFeesJson
    /\ LET body == TopicBody(topic)
           head == SplitFirst(body, Chr.minus)
       IN  /\ Len(head) + 2 <= Len(body)
           /\ IsDecimalOf(head, first)
           /\ IsDecimalOf(SubSeq(body, Len(head) + 2, Len(body)), chain)

OneTopicPerChain ==
    \A i, j \in 1..Len(clients) :
        clients[i].chain_id = clients[j].chain_id
            <=> clients[i].feeDecoder.contentTopic = clients[j].feeDecoder.contentTopic

\* C24 as stated: the topic of a client of chain c is
\* "/railgun/v2/{clusterId}-{c}-fees/json" with the cluster id of the shard the
\* client subscribes on; the same chain gives the same topic and two chains
\* never the same one.
C24_TopicOfCluster ==
    /\ \A i \in 1..Len(clients) :
          HasTopicFormat(clients[i].feeDecoder.contentTopic,
                         clients[i].feeDecoder.routingInfo.clusterId,
                         clients[i].chain_id)
    /\ OneTopicPerChain

\* C24 amended: the topic of a client of chain c is "/railgun/v2/0-{c}-fees/json",
\* the first number being 0 whatever the cluster the client subscribes on; the
\* same chain gives the same topic and two chains never the same one.
C24_TopicFormat ==
    /\ \A i \in 1..Len(clients) :
          HasTopicFormat(clients[i].feeDecoder.contentTopic, 0, clients[i].chain_id)
    /\ OneTopicPerChain

\* C24 witness: clients of the chains 1 and 11 were made, on cluster 1.
C24_Witness ==
    /\ Len(clients) = 2
    /\ clients[1].chain_id = 1
    /\ clients[2].chain_id = 11
    /\ clients[1].feeDecoder.routingInfo.clusterId = 1
    /\ clients[1].feeDecoder.contentTopic # clients[2].feeDecoder.contentTopic
    /\ TopicBody(clients[2].feeDecoder.contentTopic) = <<48, 45, 49, 49>>

----------------------------------------------------------------------------
(* SpecWasm: initWasm and getWasm of wasm.ts *)

MaxInits == 2
MaxGets == 2

\* What import("../pkg/railgun_rs.js") resolves to: the one module namespace.
Module == "railgun_rs.js"

InitCall(phase, module, ran, late) ==
    [phase |-> phase, result |-> module, ran |-> ran, late |-> late]

\* Some initWasm call has run to its end.
Initialised(cs) == \E i \in 1..Len(cs) : cs[i].phase = "returned" /\ cs[i].ran

\* Line 37 and the import of line 39: the call returns the module at once, or
\* goes on to import it.  `late` records that a call had completed before.
InitWasm ==
    /\ Len(inits) < MaxInits
    /\ inits' = Append(inits,
           IF wasmInitialized /\ wasmExports # Null
           THEN InitCall("returned", wasmExports, FALSE, Initialised(inits))
           ELSE InitCall("importing", Null, FALSE, Initialised(inits)))
    /\ UNCHANGED <<clients, wasmInitialized, wasmExports, gets>>
    /\ UNCHANGED <<registryVars, bestVars, resolveVars, storeVars, transportVars, proverVars>>

\* The flag is set as soon as the module is imported.
InitWasmImportedFlagFirst(i, ok) ==
    /\ inits[i].phase = "importing"
    /\ inits' = [inits EXCEPT ![i].phase = IF ok THEN "initialising" ELSE "failed"]
    /\ wasmInitialized' = (wasmInitialized \/ ok)
    /\ UNCHANGED <<clients, wasmExports, gets>>
    /\ UNCHANGED <<registryVars, bestVars, resolveVars, storeVars, transportVars, proverVars>>

\* Lines 39-45: the import has settled; the initialiser module.default is
\* called and awaited.
InitWasmImported(i, ok) ==
    /\ inits[i].phase = "importing"
    /\ inits' = [inits EXCEPT ![i].phase = IF ok THEN "initialising" ELSE "failed"]
    /\ UNCHANGED <<clients, wasmInitialized, wasmExports, gets>>
    /\ UNCHANGED <<registryVars, bestVars, resolveVars, storeVars, transportVars, proverVars>>

\* Lines 41-51: the initialiser has settled; when it succeeded the panic hook
\* is set, both variables are assigned and the module is returned.
InitWasmFinished(i, ok) ==
    /\ inits[i].phase = "initialising"
    /\ IF ok
       THEN /\ wasmInitialized' = TRUE
            /\ wasmExports' = Module
            /\ inits' = [inits EXCEPT ![i].phase = "returned", ![i].result = Module,
                                      ![i].ran = TRUE]
       ELSE /\ inits' = [inits EXCEPT ![i].phase = "failed", ![i].ran = TRUE]
            /\ UNCHANGED <<wasmInitialized, wasmExports>>
    /\ UNCHANGED <<clients, gets>>
    /\ UNCHANGED <<registryVars, bestVars, resolveVars, storeVars, transportVars, proverVars>>

\* Lines 54-59; createBroadcasterFromNode is one of its callers.
GetWasm ==
    /\ Len(gets) < MaxGets
    /\ gets' = Append(gets,
           IF ~wasmInitialized \/ wasmExports = Null
           THEN [threw |-> "WASM module not initialized. Call initWasm() first.",
                 result |-> Null, initialised |-> Initialised(inits)]
           ELSE [threw |-> "", result |-> wasmExports,
                 initialised |-> Initialised(inits)])
    /\ UNCHANGED <<clients, wasmInitialized, wasmExports, inits>>
    /\ UNCHANGED <<registryVars, bestVars, resolveVars, storeVars, transportVars, proverVars>>

NextWasm ==
    \/ InitWasm
    \/ \E i \in 1..Len(inits), ok \in BOOLEAN : InitWasmImported(i, ok)
    \/ \E i \in 1..Len(inits), ok \in BOOLEAN : InitWasmFinished(i, ok)
    \/ GetWasm

SpecWasm == Init /\ [][NextWasm]_vars

\* C25: getWasm throws as long as no initWasm call has run to its end, failed
\* ones included, and returns the module afterwards; an initWasm call made
\* after one has completed returns that module and does not run the
\* initialiser; wasmInitialized is true exactly when wasmExports is not null.
C25_WasmState ==
    /\ \A k \in 1..Len(gets) :
          IF gets[k].initialised
          THEN gets[k].threw = "" /\ gets[k].result = Module
          ELSE /\ gets[k].threw = "WASM module not initialized. Call initWasm() first."
               /\ gets[k].result = Null
    /\ \A i \in 1..Len(inits) :
          /\ inits[i].late =>
                /\ inits[i].phase = "returned"
                /\ inits[i].result = Module
                /\ ~inits[i].ran
          /\ inits[i].phase = "returned" => inits[i].result = Module
    /\ wasmInitialized <=> wasmExports # Null
    /\ wasmInitialized <=> Initialised(inits)

\* C25 witness: a first initWasm failed in the initialiser and getWasm threw;
\* a second one completed, and getWasm returned the module.
C25_Witness ==
    /\ Len(inits) = 2
    /\ inits[1].phase = "failed" /\ inits[1].ran
    /\ inits[2].phase = "returned" /\ inits[2].ran /\ ~inits[2].late
    /\ Len(gets) = 2
    /\ gets[1].threw # "" /\ ~gets[1].initialised
    /\ gets[2].threw = "" /\ gets[2].result = Module

\* The initWasm calls that have called the initialiser module.default (lines
\* 41-45), and those that have called init_panic_hook (line 47).
InitialiserCalls ==
    {i \in 1..Len(inits) : inits[i].phase = "initialising" \/ inits[i].ran}

PanicHookCalls ==
    {i \in 1..Len(inits) : inits[i].phase = "returned" /\ inits[i].ran}

\* C33: the initialiser and init_panic_hook run at most once per process, also
\* when several initWasm calls are started before the first one completes.
C33_InitialisedOnce ==
    /\ Cardinality(InitialiserCalls) <= 1
    /\ Cardinality(PanicHookCalls) <= 1

----------------------------------------------------------------------------
(* SpecProver: the prove function of createProveFunction, with loadArtifacts
   and the artifact cache *)

MaxProves == 2

Colon == 58

\* Paths a resolver may answer with: "a", "c", "a:b", "b:c".
PathA == <<97>>
PathC == <<99>>
PathAB == <<97, Colon, 98>>
PathBC == <<98, Colon, 99>>

Circuits == {"transact/01x02", "poi/01x02"}

ArtifactPaths(wasmPath, zkeyPath) == [wasmPath |-> wasmPath, zkeyPath |-> zkeyPath]

\* config.resolveArtifacts: the resolvers a caller passes.
Resolvers ==
    {[c \in Circuits |-> IF c = "transact/01x02" THEN ArtifactPaths(PathAB, PathC)
                                                  ELSE ArtifactPaths(PathA, PathBC)],
     [c \in Circuits |-> IF c = "transact/01x02" THEN ArtifactPaths(PathA, PathC)
                                                  ELSE ArtifactPaths(PathA, PathBC)]}

\* config.verify: true, false, or left out.
VerifyOptions == {"true", "false", "undefined"}

ProverConfigs == [resolveArtifacts : Resolvers, verify : VerifyOptions]

\* What a file holds: every file its own bytes, named here by its path.
FileBytes(path) == [of |-> path]

\* The verification is on unless it is switched off.
shouldVerifyUnlessFalse(config) == config.verify # "false"

\* Line 241: config.verify ?? false
shouldVerify(config) == config.verify = "true"

\* Line 217: `${wasmPath}:${zkeyPath}`
cacheKey(wasmPath, zkeyPath) == wasmPath \o <<Colon>> \o zkeyPath

\* What snarkjs.groth16.fullProve resolves to.
Proof == [pi_a |-> <<11, 12, 1>>, pi_b |-> << <<21, 22>>, <<23, 24>>, <<1, 0>> >>,
          pi_c |-> <<31, 32, 1>>]

\* Lines 275-282: the proof in decimal strings.
JsProofResponse(proof) ==
    [a |-> <<NumberToString(proof.pi_a[1]), NumberToString(proof.pi_a[2])>>,
     b |-> << <<NumberToString(proof.pi_b[1][1]), NumberToString(proof.pi_b[1][2])>>,
              <<NumberToString(proof.pi_b[2][1]), NumberToString(proof.pi_b[2][2])>> >>,
     c |-> <<NumberToString(proof.pi_c[1]), NumberToString(proof.pi_c[2])>>]

VerificationFailed(circuitName) ==
    [message |-> "Proof verification failed for", circuitName |-> circuitName]

\* Some earlier call for the same two paths has loaded them.
LoadedBefore(ps, paths) ==
    \E i \in 1..Len(ps) :
        /\ ps[i].paths = paths
        /\ ps[i].artifacts # {}
        /\ ps[i].reads # {}

\* Lines 245-263 and 217-224: the paths are resolved and loadArtifacts looks
\* the key up; on a hit it returns what the cache holds, otherwise both files
\* are asked for and the call waits for them.
Prove(config, circuitName) ==
    /\ Len(proves) < MaxProves
    /\ LET paths == config.resolveArtifacts[circuitName]
           key == cacheKey(paths.wasmPath, paths.zkeyPath)
           hit == MapHas(artifactCache, key)
       IN  proves' = Append(proves,
              [config |-> config, circuitName |-> circuitName, paths |-> paths,
               phase |-> IF hit THEN "proving" ELSE "reading",
               reads |-> IF hit THEN {} ELSE {paths.wasmPath, paths.zkeyPath},
               artifacts |-> IF hit THEN {MapGet(artifactCache, key)} ELSE {},
               again |-> LoadedBefore(proves, paths),
               verified |-> {}, result |-> {}, threw |-> {}])
    /\ UNCHANGED artifactCache
    /\ UNCHANGED <<registryVars, bestVars, resolveVars, storeVars, transportVars, sdkVars>>

\* Lines 221-232: Promise.all settles; when both files were read the artifacts
\* are stored under the key and returned, otherwise the call rejects.
FilesRead(i, ok) ==
    /\ proves[i].phase = "reading"
    /\ IF ok
       THEN LET paths == proves[i].paths
                artifacts == [wasm |-> FileBytes(paths.wasmPath),
                              zkey |-> FileBytes(paths.zkeyPath)]
            IN  /\ artifactCache' = MapSet(artifactCache,
                                           cacheKey(paths.wasmPath, paths.zkeyPath),
                                           artifacts)
                /\ proves' = [proves EXCEPT ![i].phase = "proving",
                                            ![i].artifacts = {artifacts}]
       ELSE /\ proves' = [proves EXCEPT ![i].phase = "failed",
                                        ![i].threw = {"read failed"}]
            /\ UNCHANGED artifactCache
    /\ UNCHANGED <<registryVars, bestVars, resolveVars, storeVars, transportVars, sdkVars>>

\* Lines 264-273 and 275-283: fullProve settles; without verification the
\* proof is returned, with it the verification key is exported and the
\* verification awaited.
Proved(i, ok) ==
    /\ proves[i].phase = "proving"
    /\ proves' = [proves EXCEPT
          ![i].phase = IF ~ok THEN "failed"
                       ELSE IF shouldVerify(proves[i].config) THEN "verifying"
                       ELSE "returned",
          ![i].threw = IF ok THEN {} ELSE {"fullProve failed"},
          ![i].result = IF ok /\ ~shouldVerify(proves[i].config)
                        THEN {JsProofResponse(Proof)} ELSE {}]
    /\ UNCHANGED artifactCache
    /\ UNCHANGED <<registryVars, bestVars, resolveVars, storeVars, transportVars, sdkVars>>

\* Lines 266-272 and 275-283: groth16.verify has answered.
Verified(i, valid) ==
    /\ proves[i].phase = "verifying"
    /\ proves' = [proves EXCEPT
          ![i].verified = {valid},
          ![i].phase = IF valid THEN "returned" ELSE "failed",
          ![i].threw = IF valid THEN {}
                       ELSE {VerificationFailed(proves[i].circuitName)},
          ![i].result = IF valid THEN {JsProofResponse(Proof)} ELSE {}]
    /\ UNCHANGED artifactCache
    /\ UNCHANGED <<registryVars, bestVars, resolveVars, storeVars, transportVars, sdkVars>>

NextProver ==
    \/ \E config \in ProverConfigs, circuitName \in Circuits : Prove(config, circuitName)
    \/ \E i \in 1..Len(proves), ok \in BOOLEAN : FilesRead(i, ok)
    \/ \E i \in 1..Len(proves), ok \in BOOLEAN : Proved(i, ok)
    \/ \E i \in 1..Len(proves), valid \in BOOLEAN : Verified(i, valid)

SpecProver == Init /\ [][NextProver]_vars

\* C37: with verify true, a call whose verification answered false has thrown
\* the verification error and returned nothing, and a call that returned was
\* verified; with verify false or left out no verification is made and the
\* generated proof is returned.
C37_VerifyGuardsResult ==
    \A i \in 1..Len(proves) :
        LET p == proves[i]
        IN  IF p.config.verify = "true"
            THEN /\ p.verified = {FALSE} =>
                       /\ p.phase = "failed"
                       /\ p.threw = {VerificationFailed(p.circuitName)}
                       /\ p.result = {}
                 /\ p.phase = "returned" => p.verified = {TRUE}
                 /\ p.phase = "returned" => p.result = {JsProofResponse(Proof)}
            ELSE /\ p.verified = {}
                 /\ p.phase # "verifying"
                 /\ p.phase = "returned" => p.result = {JsProofResponse(Proof)}
                 /\ p.threw \subseteq {"read failed", "fullProve failed"}

\* C37 witness: one call with verify true threw the verification error, and
\* one with verify left out returned its proof unverified.
C37_Witness ==
    /\ Len(proves) = 2
    /\ proves[1].config.verify = "true"
    /\ proves[1].verified = {FALSE}
    /\ proves[1].threw = {VerificationFailed(proves[1].circuitName)}
    /\ proves[2].config.verify = "undefined"
    /\ proves[2].phase = "returned"
    /\ proves[2].verified = {}
    /\ proves[2].result # {}

\* An entry of the cache was stored by a call that read both files.
StoredByLoad(entry) ==
    \E i \in 1..Len(proves) :
        /\ proves[i].reads # {}
        /\ proves[i].artifacts = {entry[2]}
        /\ cacheKey(proves[i].paths.wasmPath, proves[i].paths.zkeyPath) = entry[1]

\* C38: loadArtifacts returns the contents of exactly the two files asked
\* for, from the cache or not; every entry of the cache was stored by a call
\* that had read both files; and a request for two paths that an earlier call
\* has loaded reads no file.
C38_CacheSound ==
    /\ \A i \in 1..Len(proves) :
          /\ \A artifacts \in proves[i].artifacts :
                /\ artifacts.wasm = FileBytes(proves[i].paths.wasmPath)
                /\ artifacts.zkey = FileBytes(proves[i].paths.zkeyPath)
          /\ proves[i].again => proves[i].reads = {}
    /\ \A entry \in artifactCache : StoredByLoad(entry)

----------------------------------------------------------------------------
(* SpecTransport: subscribeFn and sendFn of the Waku transport, and stop *)

MaxSubscriptions == 1
MaxReceived == 2
MaxSends == 1

\* What an async function without a return statement resolves to.
Undefined == "undefined"

TopicSets == (SUBSET ContentTopics) \ {{}}
Timestamps == {NoDate, DateOf(0), DateOf(1770510282)}

\* What node.lightPush.send does with a message: it resolves naming the peers
\* that took it, resolves naming only failures, or rejects.
PushOutcomes == {"peers", "no successful peer", "rejects"}

\* A message as the node decodes it.
Decoded(n, topic, timestamp) ==
    [payload |-> <<n>>, contentTopic |-> topic, timestamp |-> timestamp]

\* Lines 85-102: the callback is registered with node.filter for the topics and
\* the promise of subscribeFn resolves, to nothing.
Subscribe(topics) ==
    /\ ~stopped
    /\ Len(handles) < MaxSubscriptions
    /\ subscriptions' = subscriptions \cup {[id |-> Len(handles) + 1, topics |-> topics]}
    /\ handles' = Append(handles, Undefined)
    /\ UNCHANGED <<received, forwarded, stopped, forwardedAtStop, pushes, sends>>
    /\ UNCHANGED <<registryVars, bestVars, resolveVars, storeVars, sdkVars, proverVars>>

RECURSIVE forwardAll(_, _, _)
\* Lines 91-101, for every subscription the node calls back, in the order of
\* subscription: the WakuMessage is made and handed to onMessage.
forwardAll(fwd, ids, m) ==
    IF ids = <<>> THEN fwd
    ELSE forwardAll(Append(fwd, [to |-> Head(ids), msg |-> toWakuMessage(m)]),
                    Tail(ids), m)

\* A message of the network reaches the node, which calls back the
\* subscriptions of its content topic while it runs.
Receive(topic, timestamp) ==
    /\ Len(received) < MaxReceived
    /\ LET m == Decoded(Len(received) + 1, topic, timestamp)
           ids == IF stopped THEN {}
                  ELSE {sub.id : sub \in {x \in subscriptions : topic \in x.topics}}
       IN  /\ received' = Append(received, [msg |-> m, to |-> ids, afterStop |-> stopped])
           /\ forwarded' = forwardAll(forwarded, SetToSeq(ids), m)
    /\ UNCHANGED <<subscriptions, handles, stopped, forwardedAtStop, pushes, sends>>
    /\ UNCHANGED <<registryVars, bestVars, resolveVars, storeVars, sdkVars, proverVars>>

\* src/sdk-js/src/_broadcaster.ts lines 121-123: await this.node.stop().
Stop ==
    /\ ~stopped
    /\ stopped' = TRUE
    /\ forwardedAtStop' = Len(forwarded)
    /\ UNCHANGED <<subscriptions, handles, received, forwarded, pushes, sends>>
    /\ UNCHANGED <<registryVars, bestVars, resolveVars, storeVars, sdkVars, proverVars>>

\* What the caller of sendFn sees of the outcome of its one lightPush.send: the
\* value the promise resolves to is dropped, a rejection passes through the
\* await.
sendResult(outcome) == IF outcome = "rejects" THEN "rejected" ELSE "resolved"

\* Lines 104-111.
Send(topic, payload, outcome) ==
    /\ Len(sends) < MaxSends
    /\ pushes' = Append(pushes, [call |-> Len(sends) + 1, contentTopic |-> topic,
                                 payload |-> payload, outcome |-> outcome])
    /\ sends' = Append(sends, [contentTopic |-> topic, payload |-> payload,
                               saw |-> sendResult(outcome)])
    /\ UNCHANGED <<subscriptions, handles, received, forwarded, stopped, forwardedAtStop>>
    /\ UNCHANGED <<registryVars, bestVars, resolveVars, storeVars, sdkVars, proverVars>>

NextTransport ==
    \/ \E topics \in TopicSets : Subscribe(topics)
    \/ \E topic \in ContentTopics, timestamp \in Timestamps : Receive(topic, timestamp)
    \/ Stop
    \/ \E outcome \in PushOutcomes : Send(feeContentTopic(ClientChain), <<1>>, outcome)

SpecTransport == Init /\ [][NextTransport]_vars

ForwardedTo(id) == SelectSeq(forwarded, LAMBDA f : f.to = id)

DeliveredTo(id) == SelectSeq(received, LAMBDA r : id \in r.to)

\* C13: what onMessage of a subscription is handed is, message by message and
\* in the same order, what the node delivered to that subscription: nothing
\* left out, nothing twice, with the payload and the content topic of the
\* message and its time in Unix milliseconds, absent when it has none.
C13_SubscribeForwards ==
    \A sub \in subscriptions :
        LET fw == ForwardedTo(sub.id)
            dl == DeliveredTo(sub.id)
        IN  /\ Len(fw) = Len(dl)
            /\ \A k \in 1..Len(fw) :
                  /\ fw[k].msg.payload = dl[k].msg.payload
                  /\ fw[k].msg.contentTopic = dl[k].msg.contentTopic
                  /\ fw[k].msg.contentTopic \in sub.topics
                  /\ dl[k].msg.timestamp.has =>
                        fw[k].msg.timestamp = {dl[k].msg.timestamp.time}
                  /\ ~dl[k].msg.timestamp.has => fw[k].msg.timestamp = {}

\* C13 witness: two messages of the fee topic were forwarded, the first without
\* a time, the second with the time 0.
C13_Witness ==
    /\ \E sub \in subscriptions : sub.id = 1 /\ feeContentTopic(ClientChain) \in sub.topics
    /\ Len(ForwardedTo(1)) = 2
    /\ ForwardedTo(1)[1].msg.payload = <<1>>
    /\ ForwardedTo(1)[1].msg.timestamp = {}
    /\ ForwardedTo(1)[2].msg.payload = <<2>>
    /\ ForwardedTo(1)[2].msg.timestamp = {0}
    /\ ForwardedTo(1)[2].msg.contentTopic = feeContentTopic(ClientChain)

\* C14: every call of send makes one publish attempt, and when that attempt
\* does not reach a peer or rejects, the caller of send sees a failure.
C14_SendReportsFailure ==
    \A i \in 1..Len(sends) :
        /\ Cardinality({k \in 1..Len(pushes) : pushes[k].call = i}) = 1
        /\ \A k \in 1..Len(pushes) :
              (pushes[k].call = i /\ pushes[k].outcome # "peers") =>
                  sends[i].saw = "rejected"

\* C15: every subscribe call returned a handle, and since the client was
\* stopped no message has been handed to onMessage.
C15_CancelStopsDelivery ==
    /\ \A i \in 1..Len(handles) : handles[i] # Undefined
    /\ stopped => Len(forwarded) = forwardedAtStop

====
